---- MODULE Spec2Model ----
(***************************************************************************)
(* Model of the time tracker's key-value client and domain layer           *)
(* (src/src/api.rs) run by one client against the remote store.            *)
(*                                                                         *)
(* Every function of ApiClient is an operator that takes a session         *)
(*   x = [st, log, f, token]                                               *)
(* (st: remote store, log: requests sent so far by the running call, f:    *)
(* what happens to the k-th request, token: ApiClient.token) and returns   *)
(*   [x, ok, val, err]                                                     *)
(* the session afterwards with the Result of the function.  One action per *)
(* operation applies the operator to the store and records the call in     *)
(* `last`; Return is the command handing control back to main.             *)
(*                                                                         *)
(* Spec runs the domain operations after main's attempt to authenticate    *)
(* (which leaves a token or, having failed, none).  SpecAuth runs          *)
(* authenticate itself, against the token-cache file and the clock, and    *)
(* the primitives of the key-value client.  SpecPure applies the           *)
(* derivations of src/src/commands.rs (is_project_running,                 *)
(* calculate_total_time) to lists of entries.  SpecRace runs add_project   *)
(* and add_time_entry in two client instances at once, one request a step. *)
(***************************************************************************)
EXTENDS Integers, Sequences, FiniteSets, TLC

\* store: the remote key-value store; token: ApiClient.token; cache: the
\* token-cache file; now: Utc::now(), in hours; last: the last call;
\* clients: where each of two client instances running against the store
\* at once is in its call.
VARIABLES store, token, last, cache, now, clients

vars == <<store, token, last, cache, now, clients>>

-----------------------------------------------------------------------------
(* Bounds and input domains *)

\* Most time entries the store holds over all keys.
MaxEntries == 2
\* Most projects the list holds.
MaxProjects == 3
\* Largest timestamp the clock / the caller supplies.
MaxTs == 2
\* Most times the clock advances by the lifetime of a cached token.
MaxTicks == 2

\* Duration::hours(23)
TokenLifetime == 23

\* "p404" is a slug whose text contains the characters 404.
Slugs == {"a", "p404"}
Names == {"n1", "n2"}
Descriptions == {"d"}

\* Option<String>
None == <<>>
Some(s) == <<s>>

Project(name, slug, description) ==
    [name |-> name, slug |-> slug, description |-> description]

TimeEntry(timestamp, entry_type, description) ==
    [timestamp |-> timestamp, type |-> entry_type, description |-> description]

ProjectInputs == {Project(n, s, d) : n \in Names, s \in Slugs, d \in Descriptions}

EntryDescriptions == {None}

EntryInputs ==
    {TimeEntry(t, "start", d) : t \in 1..MaxTs, d \in EntryDescriptions}

\* What can happen to one request: it is answered by the store ("ok"), it is
\* answered with status 500, or the transport fails and there is no response.
Outcomes == {"ok", "e500", "net"}

\* The outcomes of the requests of one call that sends at most n of them
\* (update_project sends the most: five).
Faults(n) == [1..n -> Outcomes]

\* Tokens the login endpoint issues.
Tokens == {"tok", "tok2"}

\* What can happen to the probe of a cached token: the store answers the
\* listing, or the answer is 404, 401 or 500, or the transport fails.
ProbeOutcomes == {"ok", "e404", "e401", "e500", "net"}

\* What can happen to the login request: it is answered 200 with a token, 200
\* with a body that holds no token, 401 or 500, or the transport fails.
LoginOutcomes == Tokens \cup {"nojson", "e401", "e500", "net"}

-----------------------------------------------------------------------------
(* Keys and encoded values *)

time_key(slug) == "projects/" \o slug

Keys == {"projects"} \cup {time_key(s) : s \in Slugs}

\* serde_json::Value::Array: a JSON array holding a list.
Arr(list) == [arr |-> list]
IsArray(v) == DOMAIN v = {"arr"}

\* serde_json::to_value of a Vec, and the list serde_json::from_value takes
\* from an array.
to_value(list) == Arr(list)
from_value(v) == v.arr

\* serde_json::to_string: the JSON text of a document.
to_string(v) == [ser |-> v]

\* serde_json::from_str on a string value: the document when the text is JSON.
IsJsonText(s) == DOMAIN s = {"ser"}
from_str(s) == s.ser

\* serde_json::Value::String: a JSON string holding a text.
Str(text) == [str |-> text]
IsString(v) == DOMAIN v = {"str"}

Absent == [present |-> FALSE, value |-> Str(to_string(Arr(<<>>)))]
Stored(s) == [present |-> TRUE, value |-> s]

\* Text that is not JSON.
Garbage == [raw |-> "garbage"]

\* format!("{}/data", data_base_url) and login_url
DataUrl == "/data"
LoginUrl == "/login"

\* The key exists in the store (the collection and login endpoints are no keys).
Exists(st, key) == key \in Keys /\ st[key].present

\* {data: [{key, value}]}: the entries of the store.
KeyValueList(st) == {[key |-> k, value |-> st[k].value] : k \in {j \in Keys : st[j].present}}

\* The text of a URL / key contains "404".
Has404(key) == key \in {time_key("p404")}

NoErr == [kind |-> "none", status |-> 0, url |-> ""]
Err(kind, status, url) == [kind |-> kind, status |-> status, url |-> url]

\* e.to_string().contains("404"): a status error prints its status, a transport
\* error (reqwest) prints the URL of the request.
Contains404(e) ==
    \/ e.status = 404
    \/ e.kind = "net" /\ Has404(e.url)

IsSuccess(status) == status \in 200..299

-----------------------------------------------------------------------------
(* The remote store: POST creates a key that does not exist, PUT replaces the *)
(* value of one that does, a request answered with an error changes nothing. *)

Respond(st, method, key, body) ==
    CASE method = "GET" /\ key = DataUrl ->
           [st |-> st, status |-> 200, value |-> KeyValueList(st)]
      [] method = "GET" /\ key # DataUrl ->
           IF st[key].present
           THEN [st |-> st, status |-> 200, value |-> st[key].value]
           ELSE [st |-> st, status |-> 404, value |-> to_string(Arr(<<>>))]
      [] method = "POST" ->
           IF st[key].present
           THEN [st |-> st, status |-> 409, value |-> to_string(Arr(<<>>))]
           ELSE [st |-> [st EXCEPT ![key] = Stored(body)], status |-> 201,
                 value |-> body]
      [] method = "PUT" ->
           IF st[key].present
           THEN [st |-> [st EXCEPT ![key] = Stored(body)], status |-> 200,
                 value |-> body]
           ELSE [st |-> st, status |-> 404, value |-> to_string(Arr(<<>>))]
      [] method = "DELETE" ->
           IF st[key].present
           THEN [st |-> [st EXCEPT ![key] = Absent], status |-> 200,
                 value |-> to_string(Arr(<<>>))]
           ELSE [st |-> st, status |-> 404, value |-> to_string(Arr(<<>>))]

\* `K(v)`, with v evaluated once (each function below binds the result of a
\* call it makes before it looks at it, as a `let` of the source does).
Bind(v, K(_)) == CHOOSE out \in {K(r) : r \in {v}} : TRUE

\* What happens to one request sent over the transport: status 0 stands for
\* a transport failure (no response).
Transport(st, method, key, body, outcome) ==
    CASE outcome = "ok" -> Respond(st, method, key, body)
      [] outcome = "e500" ->
           [st |-> st, status |-> 500, value |-> to_string(Arr(<<>>))]
      [] outcome = "net" ->
           [st |-> st, status |-> 0, value |-> to_string(Arr(<<>>))]
      [] outcome = "e404" ->
           [st |-> st, status |-> 404, value |-> to_string(Arr(<<>>))]
      [] outcome = "e401" ->
           [st |-> st, status |-> 401, value |-> to_string(Arr(<<>>))]
      [] outcome = "nojson" ->
           [st |-> st, status |-> 200, value |-> Garbage]
      [] outcome \in Tokens ->
           [st |-> st, status |-> 200, value |-> [token |-> outcome]]

\* One HTTP request (.send().await).  The log keeps, for each request, its
\* body, its Authorization header and whether the key existed when it was
\* sent.
SendWith(x, method, key, body, auth_header, outcome) ==
    Bind(Transport(x.st, method, key, body, outcome), LAMBDA r :
      [x |-> [x EXCEPT !.st = r.st,
                       !.log = Append(x.log,
                                 [method |-> method, key |-> key,
                                  status |-> r.status,
                                  existed |-> Exists(x.st, key),
                                  body |-> body, auth |-> auth_header])],
       status |-> r.status, value |-> r.value])

\* A request of the key-value client: the k-th request of the call.
Send(x, method, key, body, auth_header) ==
    SendWith(x, method, key, body, auth_header, x.f[Len(x.log) + 1])

Ok(x, val) == [x |-> x, ok |-> TRUE, val |-> val, err |-> NoErr]
Fail(x, err) == [x |-> x, ok |-> FALSE, val |-> <<>>, err |-> err]

-----------------------------------------------------------------------------
(* Key-Value client *)

\* format!("Bearer {}", token)
Bearer(tok) == <<"Bearer", tok>>

\* get_auth_header sending an empty bearer token when there is none.
get_auth_header_anonymous(x) ==
    IF x.token # None THEN Ok(x, Bearer(x.token[1]))
    ELSE Ok(x, Bearer(""))

get_auth_header(x) ==
    IF x.token # None THEN Ok(x, Bearer(x.token[1]))
    ELSE Fail(x, Err("not_authenticated", 0, ""))

\* get_key reporting a 404 as it reports any other status.
get_key_404_error(x, key) ==
    IF ~get_auth_header(x).ok THEN Fail(x, get_auth_header(x).err) ELSE
    Bind(Send(x, "GET", key, to_string(Arr(<<>>)), get_auth_header(x).val), LAMBDA r :
      IF r.status = 0 THEN Fail(r.x, Err("net", 0, key))
      ELSE IF IsSuccess(r.status)
           THEN IF r.value = Garbage THEN Fail(r.x, Err("decode", 0, ""))
                ELSE IF IsString(r.value) /\ IsJsonText(r.value.str)
                THEN Ok(r.x, from_str(r.value.str))
                ELSE Ok(r.x, r.value)
      ELSE Fail(r.x, Err("api", r.status, "")))

\* get_key failing on a stored string that does not parse.
get_key_strict_parse(x, key) ==
    IF ~get_auth_header(x).ok THEN Fail(x, get_auth_header(x).err) ELSE
    Bind(Send(x, "GET", key, to_string(Arr(<<>>)), get_auth_header(x).val), LAMBDA r :
      IF r.status = 0 THEN Fail(r.x, Err("net", 0, key))
      ELSE IF IsSuccess(r.status)
           THEN IF r.value = Garbage THEN Fail(r.x, Err("decode", 0, ""))
                ELSE IF IsString(r.value) /\ IsJsonText(r.value.str)
                THEN Ok(r.x, from_str(r.value.str))
                ELSE IF IsString(r.value)
                THEN Fail(r.x, Err("decode", 0, ""))
                ELSE Ok(r.x, r.value)
      ELSE IF r.status = 404 THEN Ok(r.x, Arr(<<>>))
      ELSE Fail(r.x, Err("api", r.status, "")))

\* get_key: a 2xx body that is no KeyValueResponse fails in
\* response.json(); a string value is parsed, and kept when it does not
\* parse.
get_key(x, key) ==
    IF ~get_auth_header(x).ok THEN Fail(x, get_auth_header(x).err) ELSE
    Bind(Send(x, "GET", key, to_string(Arr(<<>>)), get_auth_header(x).val), LAMBDA r :
      IF r.status = 0 THEN Fail(r.x, Err("net", 0, key))
      ELSE IF IsSuccess(r.status)
           THEN IF r.value = Garbage THEN Fail(r.x, Err("decode", 0, ""))
                ELSE IF IsString(r.value) /\ IsJsonText(r.value.str)
                THEN Ok(r.x, from_str(r.value.str))
                ELSE Ok(r.x, r.value)
      ELSE IF r.status = 404 THEN Ok(r.x, Arr(<<>>))
      ELSE Fail(r.x, Err("api", r.status, "")))

\* set_key taking only status 200 for success (the store answers 201 Created).
set_key_only_200(x, key, value) ==
    IF ~get_auth_header(x).ok THEN Fail(x, get_auth_header(x).err) ELSE
    Bind(Send(x, "POST", key, Str(to_string(value)), get_auth_header(x).val), LAMBDA r :
      IF r.status = 0 THEN Fail(r.x, Err("net", 0, key))
      ELSE IF r.status = 200 THEN Ok(r.x, <<>>)
      ELSE Fail(r.x, Err("api", r.status, "")))

\* set_key sending a document that is already a string as it is.
set_key_raw_string(x, key, value) ==
    IF ~get_auth_header(x).ok THEN Fail(x, get_auth_header(x).err) ELSE
    Bind(Send(x, "POST", key,
              IF IsString(value) THEN value ELSE Str(to_string(value)),
              get_auth_header(x).val), LAMBDA r :
      IF r.status = 0 THEN Fail(r.x, Err("net", 0, key))
      ELSE IF IsSuccess(r.status) THEN Ok(r.x, <<>>)
      ELSE Fail(r.x, Err("api", r.status, "")))

set_key(x, key, value) ==
    IF ~get_auth_header(x).ok THEN Fail(x, get_auth_header(x).err) ELSE
    Bind(Send(x, "POST", key, Str(to_string(value)), get_auth_header(x).val), LAMBDA r :
      IF r.status = 0 THEN Fail(r.x, Err("net", 0, key))
      ELSE IF IsSuccess(r.status) THEN Ok(r.x, <<>>)
      ELSE Fail(r.x, Err("api", r.status, "")))

update_key(x, key, value) ==
    IF ~get_auth_header(x).ok THEN Fail(x, get_auth_header(x).err) ELSE
    Bind(Send(x, "PUT", key, Str(to_string(value)), get_auth_header(x).val), LAMBDA r :
      IF r.status = 0 THEN Fail(r.x, Err("net", 0, key))
      ELSE IF IsSuccess(r.status) THEN Ok(r.x, <<>>)
      ELSE Fail(r.x, Err("api", r.status, "")))

\* delete_key taking a 404 for a deletion already done.
delete_key_absent_ok(x, key) ==
    IF ~get_auth_header(x).ok THEN Fail(x, get_auth_header(x).err) ELSE
    Bind(Send(x, "DELETE", key, to_string(Arr(<<>>)), get_auth_header(x).val), LAMBDA r :
      IF r.status = 0 THEN Fail(r.x, Err("net", 0, key))
      ELSE IF IsSuccess(r.status) \/ r.status = 404 THEN Ok(r.x, <<>>)
      ELSE Fail(r.x, Err("api", r.status, "")))

delete_key(x, key) ==
    IF ~get_auth_header(x).ok THEN Fail(x, get_auth_header(x).err) ELSE
    Bind(Send(x, "DELETE", key, to_string(Arr(<<>>)), get_auth_header(x).val), LAMBDA r :
      IF r.status = 0 THEN Fail(r.x, Err("net", 0, key))
      ELSE IF IsSuccess(r.status) THEN Ok(r.x, <<>>)
      ELSE Fail(r.x, Err("api", r.status, "")))

\* serde: the body of a listing decodes as KeyValueListResponse.
IsKeyValueList(v) == \A e \in v : DOMAIN e = {"key", "value"}

get_all_keys(x) ==
    IF ~get_auth_header(x).ok THEN Fail(x, get_auth_header(x).err) ELSE
    Bind(Send(x, "GET", DataUrl, to_string(Arr(<<>>)), get_auth_header(x).val), LAMBDA r :
      IF r.status = 0 THEN Fail(r.x, Err("net", 0, DataUrl))
      ELSE IF IsSuccess(r.status)
           THEN IF IsKeyValueList(r.value) THEN Ok(r.x, r.value)
                                           ELSE Fail(r.x, Err("decode", 0, ""))
      ELSE Fail(r.x, Err("api", r.status, "")))

-----------------------------------------------------------------------------
(* Token cache and authenticate *)

\* The token-cache file: absent, or holding a text.
NoFile == [exists |-> FALSE, content |-> to_string(Arr(<<>>))]
File(content) == [exists |-> TRUE, content |-> content]

TokenCache(tok, expires_at) == [token |-> tok, expires_at |-> expires_at]

\* serde_json::from_str::<TokenCache>
IsTokenCache(v) == DOMAIN v = {"token", "expires_at"}

\* serde: the body of the login response decodes as LoginResponse.
IsLoginResponse(v) == DOMAIN v = {"token"}

LoginRequest == [username |-> "user", password |-> "pass"]

\* A request without an Authorization header.
NoHeader == <<>>

\* load_cached_token returning a token at the instant it expires.
load_cached_token_inclusive(x) ==
    LET found ==
          IF /\ x.cache.exists
             /\ IsJsonText(x.cache.content)
             /\ IsTokenCache(from_str(x.cache.content))
             /\ from_str(x.cache.content).expires_at >= x.now
          THEN Some(from_str(x.cache.content).token)
          ELSE None
    IN  [x |-> [x EXCEPT !.io = Append(@, [op |-> "read", result |-> found])],
         val |-> found]

\* The result is the Option<String> load_cached_token returns; the read of
\* the file is recorded in io.
load_cached_token(x) ==
    LET found ==
          IF /\ x.cache.exists
             /\ IsJsonText(x.cache.content)
             /\ IsTokenCache(from_str(x.cache.content))
             /\ from_str(x.cache.content).expires_at > x.now
          THEN Some(from_str(x.cache.content).token)
          ELSE None
    IN  [x |-> [x EXCEPT !.io = Append(@, [op |-> "read", result |-> found])],
         val |-> found]

\* fs::write succeeds or fails (x.env.write); a failed write leaves the file.
save_token_to_cache(x, tok) ==
    LET expires_at == x.now + TokenLifetime
        content == to_string(TokenCache(tok, expires_at))
    IN  IF x.env.write
        THEN Ok([x EXCEPT !.cache = File(content),
                          !.io = Append(@, [op |-> "write", result |-> Some(tok)])],
                <<>>)
        ELSE Fail([x EXCEPT !.io = Append(@, [op |-> "write", result |-> None])],
                  Err("io", 0, ""))

\* is_token_valid taking only a 2xx answer for valid.
is_token_valid_only_2xx(x, tok) ==
    Bind(SendWith(x, "GET", DataUrl, to_string(Arr(<<>>)), Bearer(tok), x.env.probe),
         LAMBDA r :
      [x |-> r.x, val |-> r.status # 0 /\ IsSuccess(r.status)])

\* is_token_valid sending the probe again when the transport failed.
is_token_valid_retry(x, tok) ==
    Bind(SendWith(x, "GET", DataUrl, to_string(Arr(<<>>)), Bearer(tok), x.env.probe),
         LAMBDA r :
      IF r.status # 0
      THEN [x |-> r.x, val |-> IsSuccess(r.status) \/ r.status = 404]
      ELSE Bind(SendWith(r.x, "GET", DataUrl, to_string(Arr(<<>>)), Bearer(tok),
                         x.env.probe), LAMBDA q :
             [x |-> q.x,
              val |-> q.status # 0 /\ (IsSuccess(q.status) \/ q.status = 404)]))

\* The result is the bool is_token_valid returns.
is_token_valid(x, tok) ==
    Bind(SendWith(x, "GET", DataUrl, to_string(Arr(<<>>)), Bearer(tok), x.env.probe),
         LAMBDA r :
      [x |-> r.x,
       val |-> r.status # 0 /\ (IsSuccess(r.status) \/ r.status = 404)])

\* The fresh authentication decoding the response whatever its status.
fresh_login_unchecked(x) ==
    Bind(SendWith(x, "POST", LoginUrl, LoginRequest, NoHeader, x.env.login),
         LAMBDA r :
      IF r.status = 0 THEN Fail(r.x, Err("net", 0, LoginUrl))
      ELSE IF ~IsLoginResponse(r.value)
           THEN Fail(r.x, Err("decode", 0, ""))
           ELSE Bind(save_token_to_cache(r.x, r.value.token), LAMBDA s :
                  IF ~s.ok THEN s
                  ELSE Ok([s.x EXCEPT !.token = Some(r.value.token)], <<>>)))

\* The fresh authentication saving the token to the cache only.
fresh_login_no_token(x) ==
    Bind(SendWith(x, "POST", LoginUrl, LoginRequest, NoHeader, x.env.login),
         LAMBDA r :
      IF r.status = 0 THEN Fail(r.x, Err("net", 0, LoginUrl))
      ELSE IF IsSuccess(r.status)
           THEN IF ~IsLoginResponse(r.value)
                THEN Fail(r.x, Err("decode", 0, ""))
                ELSE save_token_to_cache(r.x, r.value.token)
      ELSE Fail(r.x, Err("authentication_failed", r.status, "")))

\* The fresh authentication setting the token before it saves it.
fresh_login_token_first(x) ==
    Bind(SendWith(x, "POST", LoginUrl, LoginRequest, NoHeader, x.env.login),
         LAMBDA r :
      IF r.status = 0 THEN Fail(r.x, Err("net", 0, LoginUrl))
      ELSE IF IsSuccess(r.status)
           THEN IF ~IsLoginResponse(r.value)
                THEN Fail(r.x, Err("decode", 0, ""))
                ELSE Bind(save_token_to_cache(
                            [r.x EXCEPT !.token = Some(r.value.token)],
                            r.value.token), LAMBDA s :
                       IF ~s.ok THEN s ELSE Ok(s.x, <<>>))
      ELSE Fail(r.x, Err("authentication_failed", r.status, "")))

\* api.rs 157-180: the fresh authentication.
fresh_login(x) ==
    Bind(SendWith(x, "POST", LoginUrl, LoginRequest, NoHeader, x.env.login),
         LAMBDA r :
      IF r.status = 0 THEN Fail(r.x, Err("net", 0, LoginUrl))
      ELSE IF IsSuccess(r.status)
           THEN IF ~IsLoginResponse(r.value)
                THEN Fail(r.x, Err("decode", 0, ""))
                ELSE Bind(save_token_to_cache(r.x, r.value.token), LAMBDA s :
                       IF ~s.ok THEN s
                       ELSE Ok([s.x EXCEPT !.token = Some(r.value.token)], <<>>))
      ELSE Fail(r.x, Err("authentication_failed", r.status, "")))

authenticate(x) ==
    Bind(load_cached_token(x), LAMBDA c :
      IF c.val # None
      THEN Bind(is_token_valid(c.x, c.val[1]), LAMBDA v :
             IF v.val THEN Ok([v.x EXCEPT !.token = c.val], <<>>)
             ELSE fresh_login(v.x))
      ELSE fresh_login(c.x))

-----------------------------------------------------------------------------
(* Domain layer: projects *)

\* serde_json::from_value::<Vec<Project>>
IsProjectList(v) ==
    \A i \in DOMAIN v : DOMAIN v[i] = {"name", "slug", "description"}

get_projects(x) ==
    Bind(get_key(x, "projects"), LAMBDA r :
      IF ~r.ok THEN r
      ELSE IF IsArray(r.val) /\ IsProjectList(from_value(r.val))
           THEN Ok(r.x, from_value(r.val))
      ELSE Fail(r.x, Err("decode", 0, "")))

\* Result::unwrap_or_default on a list
unwrap_or_default(r) == IF r.ok THEN r.val ELSE <<>>

\* position(|p| p.slug == slug): the first index holding the slug, 0 for None.
position(projects, slug) ==
    IF \E i \in DOMAIN projects : projects[i].slug = slug
    THEN CHOOSE i \in DOMAIN projects :
           /\ projects[i].slug = slug
           /\ \A j \in 1..(i - 1) : projects[j].slug # slug
    ELSE 0

\* Vec::retain
retain(list, keep(_)) == SelectSeq(list, keep)

get_project(x, slug) ==
    Bind(get_projects(x), LAMBDA r :
      IF ~r.ok THEN r
      ELSE IF position(r.val, slug) # 0
           THEN Ok(r.x, r.val[position(r.val, slug)])
           ELSE Fail(r.x, Err("not_found", 0, "")))

\* add_project without the check for an existing slug.
add_project_unchecked(x, project) ==
    Bind(get_projects(x), LAMBDA r :
      LET pushed == Append(unwrap_or_default(r), project)
          is_first_project == Len(pushed) = 1
      IN  IF is_first_project
          THEN set_key(r.x, "projects", to_value(pushed))
          ELSE update_key(r.x, "projects", to_value(pushed)))

\* add_project from the point where get_projects().await has returned r.
add_project_from(r, project) ==
    LET projects == unwrap_or_default(r) IN
    IF \E i \in DOMAIN projects : projects[i].slug = project.slug
    THEN Fail(r.x, Err("duplicate", 0, ""))
    ELSE LET pushed == Append(projects, project)
             is_first_project == Len(pushed) = 1
         IN  IF is_first_project
             THEN set_key(r.x, "projects", to_value(pushed))
             ELSE update_key(r.x, "projects", to_value(pushed))

add_project(x, project) ==
    Bind(get_projects(x), LAMBDA r : add_project_from(r, project))

-----------------------------------------------------------------------------
(* Domain layer: time entries *)

\* serde_json::from_value::<Vec<TimeEntry>>
IsEntryList(v) ==
    \A i \in DOMAIN v : DOMAIN v[i] = {"timestamp", "type", "description"}

get_time_entries(x, project_slug) ==
    Bind(get_key(x, time_key(project_slug)), LAMBDA r :
      IF ~r.ok THEN r
      ELSE IF IsArray(r.val) /\ IsEntryList(from_value(r.val))
           THEN Ok(r.x, from_value(r.val))
      ELSE Fail(r.x, Err("decode", 0, "")))

\* add_time_entry inserting the new entry at the front of the list.
add_time_entry_front(x, project_slug, entry) ==
    Bind(get_time_entries(x, project_slug), LAMBDA r :
      LET key == time_key(project_slug)
          entries == <<entry>> \o unwrap_or_default(r)
          is_first_entry == Len(entries) = 1
      IN  IF is_first_entry
          THEN set_key(r.x, key, to_value(entries))
          ELSE update_key(r.x, key, to_value(entries)))

\* add_time_entry writing what it read only after it has read again.
add_time_entry_from_reread(r, project_slug, entry) ==
    Bind(get_time_entries(r.x, project_slug), LAMBDA q :
      LET key == time_key(project_slug)
          entries == Append(unwrap_or_default(q), entry)
          is_first_entry == Len(entries) = 1
      IN  IF is_first_entry
          THEN set_key(q.x, key, to_value(entries))
          ELSE update_key(q.x, key, to_value(entries)))

\* add_time_entry from the point where get_time_entries(..).await has
\* returned r.
add_time_entry_from(r, project_slug, entry) ==
    LET key == time_key(project_slug)
        entries == Append(unwrap_or_default(r), entry)
        is_first_entry == Len(entries) = 1
    IN  IF is_first_entry
        THEN set_key(r.x, key, to_value(entries))
        ELSE update_key(r.x, key, to_value(entries))

add_time_entry(x, project_slug, entry) ==
    Bind(get_time_entries(x, project_slug), LAMBDA r :
      add_time_entry_from(r, project_slug, entry))

delete_project_times(x, project_slug) ==
    delete_key(x, time_key(project_slug))

\* delete_time_entry_by_timestamp that keeps only the entries later than
\* the timestamp.
delete_time_entry_by_timestamp_older(x, project_slug, timestamp) ==
    Bind(get_time_entries(x, project_slug), LAMBDA r :
      LET key == time_key(project_slug)
          original == unwrap_or_default(r)
          keep(e) == e.timestamp > timestamp
          entries == retain(original, keep)
      IN  IF Len(entries) = Len(original)
          THEN Fail(r.x, Err("not_found", 0, ""))
          ELSE update_key(r.x, key, to_value(entries)))

delete_time_entry_by_timestamp(x, project_slug, timestamp) ==
    Bind(get_time_entries(x, project_slug), LAMBDA r :
      LET key == time_key(project_slug)
          original == unwrap_or_default(r)
          keep(e) == e.timestamp # timestamp
          entries == retain(original, keep)
      IN  IF Len(entries) = Len(original)
          THEN Fail(r.x, Err("not_found", 0, ""))
          ELSE update_key(r.x, key, to_value(entries)))

\* update_time_entry_by_timestamp without the break: every entry of the
\* timestamp gets the description.
update_time_entry_by_timestamp_every(x, project_slug, timestamp, new_description) ==
    Bind(get_time_entries(x, project_slug), LAMBDA r :
      LET key == time_key(project_slug)
          original == unwrap_or_default(r)
          found == \E i \in DOMAIN original : original[i].timestamp = timestamp
          entries == [i \in DOMAIN original |->
                        IF original[i].timestamp = timestamp
                        THEN [original[i] EXCEPT !.description = new_description]
                        ELSE original[i]]
      IN  IF ~found
          THEN Fail(r.x, Err("not_found", 0, ""))
          ELSE update_key(r.x, key, to_value(entries)))

update_time_entry_by_timestamp(x, project_slug, timestamp, new_description) ==
    Bind(get_time_entries(x, project_slug), LAMBDA r :
      LET key == time_key(project_slug)
          original == unwrap_or_default(r)
          found == \E i \in DOMAIN original : original[i].timestamp = timestamp
          first == CHOOSE i \in DOMAIN original :
                     /\ original[i].timestamp = timestamp
                     /\ \A j \in 1..(i - 1) : original[j].timestamp # timestamp
          entries == [original EXCEPT ![first].description = new_description]
      IN  IF ~found
          THEN Fail(r.x, Err("not_found", 0, ""))
          ELSE update_key(r.x, key, to_value(entries)))

-----------------------------------------------------------------------------
(* Domain layer: rename and delete of a project *)

\* The cleanup deletions of update_project and delete_project: a failed
\* delete_key is passed over when the text of its error contains "404".
delete_tolerating_404(x, key) ==
    Bind(delete_key(x, key), LAMBDA d :
      IF ~d.ok /\ ~Contains404(d.err)
      THEN Fail(d.x, Err("delete_failed", d.err.status, d.err.url))
      ELSE Ok(d.x, <<>>))

\* api.rs 320-339: move the time entries to the key of the new slug.  The
\* result is ok when update_project goes on to write the projects list.
move_time_entries(x, old_slug, new_slug) ==
    Bind(get_time_entries(x, old_slug), LAMBDA t :
      IF ~t.ok \/ t.val = <<>> THEN Ok(t.x, <<>>) ELSE
      Bind(set_key(t.x, time_key(new_slug), to_value(t.val)), LAMBDA s :
        IF ~s.ok THEN s
        ELSE delete_tolerating_404(s.x, time_key(old_slug))))

\* update_project writing the projects list before it moves the time entries.
update_project_list_first(x, old_slug, updated_project) ==
    Bind(get_projects(x), LAMBDA r :
      LET projects == unwrap_or_default(r)
          project_index == position(projects, old_slug)
      IN
      IF project_index = 0 THEN Fail(r.x, Err("not_found", 0, "")) ELSE
      IF /\ old_slug # updated_project.slug
         /\ \E i \in DOMAIN projects :
              i # project_index /\ projects[i].slug = updated_project.slug
      THEN Fail(r.x, Err("duplicate", 0, "")) ELSE
      Bind(update_key(r.x, "projects",
                      to_value([projects EXCEPT
                                  ![project_index] = updated_project])),
           LAMBDA u :
        IF ~u.ok \/ old_slug = updated_project.slug THEN u
        ELSE move_time_entries(u.x, old_slug, updated_project.slug)))

\* update_project moving the time entries whether the slug changes or not.
update_project_always_move(x, old_slug, updated_project) ==
    Bind(get_projects(x), LAMBDA r :
      LET projects == unwrap_or_default(r)
          project_index == position(projects, old_slug)
      IN
      IF project_index = 0 THEN Fail(r.x, Err("not_found", 0, "")) ELSE
      IF /\ old_slug # updated_project.slug
         /\ \E i \in DOMAIN projects :
              i # project_index /\ projects[i].slug = updated_project.slug
      THEN Fail(r.x, Err("duplicate", 0, "")) ELSE
      Bind(move_time_entries(r.x, old_slug, updated_project.slug), LAMBDA m :
        IF ~m.ok THEN m
        ELSE update_key(m.x, "projects",
                        to_value([projects EXCEPT
                                    ![project_index] = updated_project]))))

update_project(x, old_slug, updated_project) ==
    Bind(get_projects(x), LAMBDA r :
      LET projects == unwrap_or_default(r)
          project_index == position(projects, old_slug)
      IN
      IF project_index = 0 THEN Fail(r.x, Err("not_found", 0, "")) ELSE
      IF /\ old_slug # updated_project.slug
         /\ \E i \in DOMAIN projects :
              i # project_index /\ projects[i].slug = updated_project.slug
      THEN Fail(r.x, Err("duplicate", 0, "")) ELSE
      Bind(IF old_slug # updated_project.slug
           THEN move_time_entries(r.x, old_slug, updated_project.slug)
           ELSE Ok(r.x, <<>>), LAMBDA m :
        IF ~m.ok THEN m
        ELSE update_key(m.x, "projects",
                        to_value([projects EXCEPT
                                    ![project_index] = updated_project]))))

\* delete_project without the check that the slug is in the list.
delete_project_unchecked(x, project_slug) ==
    Bind(get_projects(x), LAMBDA r :
      LET original == unwrap_or_default(r)
          keep(p) == p.slug # project_slug
          projects == retain(original, keep)
      IN
      Bind(delete_tolerating_404(r.x, time_key(project_slug)), LAMBDA d :
        IF ~d.ok THEN d
        ELSE update_key(d.x, "projects", to_value(projects))))

delete_project(x, project_slug) ==
    Bind(get_projects(x), LAMBDA r :
      LET original == unwrap_or_default(r)
          keep(p) == p.slug # project_slug
          projects == retain(original, keep)
      IN
      IF Len(projects) = Len(original)
      THEN Fail(r.x, Err("not_found", 0, "")) ELSE
      Bind(delete_tolerating_404(r.x, time_key(project_slug)), LAMBDA d :
        IF ~d.ok THEN d
        ELSE update_key(d.x, "projects", to_value(projects))))

-----------------------------------------------------------------------------
(* Commands: what is derived from the entries of a project                  *)
(* (src/src/commands.rs)                                                    *)

\* TimeEntry.timestamp is an i64; the model keeps the arithmetic of the
\* type on I64Bits bits.
I64Bits == 3
MinI64 == -(2 ^ (I64Bits - 1))
MaxI64 == 2 ^ (I64Bits - 1) - 1
Fits(v) == v \in MinI64..MaxI64
\* The value an overflowing operation leaves when overflow is not checked.
wrapping(v) == ((v - MinI64) % (2 ^ I64Bits)) + MinI64

\* Longest list of entries given to a derivation.
MaxLen == 3

\* The timestamps of the entries a key can hold: those of the clock and the
\* ends of the type.
Timestamps == {MinI64, MaxI64} \cup (0..MaxTs)
\* TimeEntry.entry_type is a String: "pause" stands for any other text.
EntryTypes == {"start", "end", "pause"}
Entries == {TimeEntry(t, y, None) : t \in Timestamps, y \in EntryTypes}
EntryLists == UNION {[1..n -> Entries] : n \in 0..MaxLen}

\* One step of the stable sort: e goes behind the entries whose key is not
\* larger than its own.
insert_by_key(sorted, e) ==
    SelectSeq(sorted, LAMBDA s : s.timestamp <= e.timestamp)
      \o <<e>> \o
    SelectSeq(sorted, LAMBDA s : s.timestamp > e.timestamp)

\* sorted_entries.sort_by_key(|e| e.timestamp): a stable sort, entries with
\* the same timestamp keep the order they had.
RECURSIVE sort_by_key(_)
sort_by_key(list) ==
    IF list = <<>> THEN <<>>
    ELSE insert_by_key(sort_by_key(SubSeq(list, 1, Len(list) - 1)),
                       list[Len(list)])

\* The result of the derivation, or the panic of an arithmetic overflow.
Total(val) == [ok |-> TRUE, val |-> val]
Panic == [ok |-> FALSE, val |-> 0]

\* The loop of calculate_total_time over the sorted entries.  An overflow
\* of the subtraction or of the addition panics when the build checks
\* overflow (debug) and wraps when it does not (release).
RECURSIVE for_entry(_, _, _, _)
for_entry(sorted_entries, total, start_time, overflow_checks) ==
    IF sorted_entries = <<>> THEN Total(total)
    ELSE IF Head(sorted_entries).type = "start"
    THEN for_entry(Tail(sorted_entries), total,
                   Some(Head(sorted_entries).timestamp), overflow_checks)
    ELSE IF Head(sorted_entries).type = "end" /\ start_time # None
    THEN IF overflow_checks
            /\ \/ ~Fits(Head(sorted_entries).timestamp - start_time[1])
               \/ ~Fits(total + (Head(sorted_entries).timestamp
                                   - start_time[1]))
         THEN Panic
         ELSE for_entry(Tail(sorted_entries),
                        wrapping(total
                                 + wrapping(Head(sorted_entries).timestamp
                                              - start_time[1])),
                        None, overflow_checks)
    ELSE for_entry(Tail(sorted_entries), total, start_time, overflow_checks)

\* The loop with a start that follows a pending start closing it.
RECURSIVE for_entry_implicit_end(_, _, _, _)
for_entry_implicit_end(sorted_entries, total, start_time, overflow_checks) ==
    IF sorted_entries = <<>> THEN Total(total)
    ELSE IF Head(sorted_entries).type = "pause"
            \/ (Head(sorted_entries).type = "end" /\ start_time = None)
    THEN for_entry_implicit_end(Tail(sorted_entries), total, start_time,
                                overflow_checks)
    ELSE IF start_time = None
    THEN for_entry_implicit_end(Tail(sorted_entries), total,
                                Some(Head(sorted_entries).timestamp),
                                overflow_checks)
    ELSE IF overflow_checks
            /\ \/ ~Fits(Head(sorted_entries).timestamp - start_time[1])
               \/ ~Fits(total + (Head(sorted_entries).timestamp
                                   - start_time[1]))
    THEN Panic
    ELSE for_entry_implicit_end(
           Tail(sorted_entries),
           wrapping(total + wrapping(Head(sorted_entries).timestamp
                                       - start_time[1])),
           IF Head(sorted_entries).type = "start"
           THEN Some(Head(sorted_entries).timestamp) ELSE None,
           overflow_checks)

\* calculate_total_time without the sort.
calculate_total_time_unsorted(entries, overflow_checks) ==
    for_entry(entries, 0, None, overflow_checks)

\* calculate_total_time counting the time up to a start that follows a
\* start.
calculate_total_time_implicit_end(entries, overflow_checks) ==
    for_entry_implicit_end(sort_by_key(entries), 0, None, overflow_checks)

calculate_total_time(entries, overflow_checks) ==
    for_entry(sort_by_key(entries), 0, None, overflow_checks)

Reverse(list) == [i \in 1..Len(list) |-> list[Len(list) + 1 - i]]

\* is_project_running with a sort that turns round the entries of the same
\* timestamp.
is_project_running_ties_reversed(entries) ==
    IF entries = <<>> THEN FALSE
    ELSE sort_by_key(Reverse(entries))[Len(entries)].type = "start"

is_project_running(entries) ==
    IF entries = <<>> THEN FALSE
    ELSE sort_by_key(entries)[Len(entries)].type = "start"

-----------------------------------------------------------------------------
(* Commands: time start, time stop (src/src/commands.rs).  A command       *)
(* returns Ok(()) whatever happened; val tells what it did, err keeps the  *)
(* error it printed.  The log file of the tool is left out: it is local    *)
(* and a failure to write it only ends the command earlier.                *)

Cmd(x, outcome, err) == [x |-> x, ok |-> TRUE, val |-> outcome, err |-> err]

\* The name shown for the project; the slug when the list cannot be read or
\* does not hold it.
get_project_display_name(x, project_slug) ==
    Bind(get_projects(x), LAMBDA r :
      Ok(r.x, IF r.ok /\ position(r.val, project_slug) # 0
              THEN <<r.val[position(r.val, project_slug)].name, project_slug>>
              ELSE <<project_slug>>))

\* start_tracking without the check that the project is not running.
start_tracking_unchecked(x, project_slug, description) ==
    Bind(get_project_display_name(x, project_slug), LAMBDA n :
      Bind(get_time_entries(n.x, project_slug), LAMBDA r :
        IF ~r.ok THEN Cmd(r.x, "status_failed", r.err)
        ELSE Bind(add_time_entry(r.x, project_slug,
                                 TimeEntry(r.x.now, "start", description)),
                  LAMBDA a :
               IF a.ok THEN Cmd(a.x, "started", NoErr)
               ELSE Cmd(a.x, "add_failed", a.err))))

start_tracking(x, project_slug, description) ==
    Bind(get_project_display_name(x, project_slug), LAMBDA n :
      Bind(get_time_entries(n.x, project_slug), LAMBDA r :
        IF ~r.ok THEN Cmd(r.x, "status_failed", r.err)
        ELSE IF is_project_running(r.val)
        THEN Cmd(r.x, "already_running", NoErr)
        ELSE Bind(add_time_entry(r.x, project_slug,
                                 TimeEntry(r.x.now, "start", description)),
                  LAMBDA a :
               IF a.ok THEN Cmd(a.x, "started", NoErr)
               ELSE Cmd(a.x, "add_failed", a.err))))

end_tracking(x, project_slug, description) ==
    Bind(get_project_display_name(x, project_slug), LAMBDA n :
      Bind(get_time_entries(n.x, project_slug), LAMBDA r :
        IF ~r.ok THEN Cmd(r.x, "status_failed", r.err)
        ELSE IF r.val = <<>> THEN Cmd(r.x, "no_entries", NoErr)
        ELSE IF ~is_project_running(r.val)
        THEN Cmd(r.x, "not_running", NoErr)
        ELSE Bind(add_time_entry(r.x, project_slug,
                                 TimeEntry(r.x.now, "end", Some(description))),
                  LAMBDA a :
               IF a.ok THEN Cmd(a.x, "stopped", NoErr)
               ELSE Cmd(a.x, "add_failed", a.err))))

-----------------------------------------------------------------------------
(* Commands: time delete, time edit, project add, edit, delete *)

\* A line read from the terminal is a sequence of words, blanks and line
\* ends.
Whitespace == {" ", "\n"}

RECURSIVE trim_start(_)
trim_start(line) ==
    IF line # <<>> /\ Head(line) \in Whitespace
    THEN trim_start(Tail(line))
    ELSE line

RECURSIVE trim_end(_)
trim_end(line) ==
    IF line # <<>> /\ line[Len(line)] \in Whitespace
    THEN trim_end(SubSeq(line, 1, Len(line) - 1))
    ELSE line

\* str::trim: the line without the whitespace at its two ends.
trim(line) == trim_end(trim_start(line))

\* The text "DELETE ALL".
DELETE_ALL == <<"DELETE", " ", "ALL">>

\* io::stdin().read_line(&mut input): the line, or an error of the terminal.
ReadLine(line) == [ok |-> TRUE, line |-> line]
ReadLineError == [ok |-> FALSE, line |-> <<>>]

show_danger_warning_and_confirm(x, read_line) ==
    IF ~read_line.ok THEN Fail(x, Err("io", 0, ""))
    ELSE IF trim(read_line.line) # DELETE_ALL
    THEN Fail(x, Err("cancelled", 0, ""))
    ELSE Ok(x, <<>>)

\* delete_times that goes on after the prompt whatever was typed.
delete_times_unconfirmed(x, project_slug, timestamp, all, read_line) ==
    IF timestamp # None
    THEN Bind(delete_time_entry_by_timestamp(x, project_slug, timestamp[1]),
              LAMBDA r :
           IF r.ok THEN Cmd(r.x, "deleted", NoErr)
           ELSE Cmd(r.x, "delete_failed", r.err))
    ELSE IF all
    THEN Bind(show_danger_warning_and_confirm(x, read_line), LAMBDA c :
           Bind(delete_project_times(c.x, project_slug), LAMBDA r :
             IF r.ok THEN Cmd(r.x, "deleted_all", NoErr)
             ELSE Cmd(r.x, "delete_all_failed", r.err)))
    ELSE Cmd(x, "safety_error", NoErr)

delete_times(x, project_slug, timestamp, all, read_line) ==
    IF timestamp # None
    THEN Bind(delete_time_entry_by_timestamp(x, project_slug, timestamp[1]),
              LAMBDA r :
           IF r.ok THEN Cmd(r.x, "deleted", NoErr)
           ELSE Cmd(r.x, "delete_failed", r.err))
    ELSE IF all
    THEN Bind(show_danger_warning_and_confirm(x, read_line), LAMBDA c :
           IF ~c.ok THEN c
           ELSE Bind(delete_project_times(c.x, project_slug), LAMBDA r :
                  IF r.ok THEN Cmd(r.x, "deleted_all", NoErr)
                  ELSE Cmd(r.x, "delete_all_failed", r.err)))
    ELSE Cmd(x, "safety_error", NoErr)

\* sorted_entries.sort_by_key(|e| Reverse(e.timestamp)): newest first,
\* entries of the same timestamp in the order they had.
sort_by_key_Reverse(list) == Reverse(sort_by_key(Reverse(list)))

\* into_iter().take(n)
take(list, n) == SubSeq(list, 1, IF Len(list) < n THEN Len(list) ELSE n)

\* The description edit_time_entry sends for the line typed: the current
\* one for an empty line, none for CLEAR, else the line.
updated_description(selected_entry, new_description) ==
    IF new_description = "" THEN selected_entry.description
    ELSE IF new_description = "CLEAR" THEN None
    ELSE Some(new_description)

\* selection is the number typed at the list of the five newest entries
\* (0: q or no number).  val tells what the command did and, for an
\* update, the entry that was selected.
edit_time_entry(x, project_slug, selection, new_description) ==
    Bind(get_time_entries(x, project_slug), LAMBDA r :
      IF ~r.ok THEN Cmd(r.x, <<"read_failed">>, r.err)
      ELSE IF r.val = <<>> THEN Cmd(r.x, <<"no_entries">>, NoErr)
      ELSE Bind(take(sort_by_key_Reverse(r.val), 5), LAMBDA recent_entries :
        IF selection < 1 \/ selection > Len(recent_entries)
        THEN Cmd(r.x, <<"quit">>, NoErr)
        ELSE Bind(update_time_entry_by_timestamp(
                    r.x, project_slug, recent_entries[selection].timestamp,
                    updated_description(recent_entries[selection],
                                        new_description)),
                  LAMBDA u :
               IF u.ok
               THEN Cmd(u.x, <<"updated", recent_entries[selection]>>, NoErr)
               ELSE Cmd(u.x, <<"update_failed">>, u.err))))

\* project add: commands::add_project with --name and --description.
add_project_command(x, project) ==
    Bind(add_project(x, project), LAMBDA r :
      IF r.ok THEN Cmd(r.x, "added", NoErr)
      ELSE Cmd(r.x, "add_failed", r.err))

\* project edit <slug>: updated_project is the project the answers to the
\* three prompts make, confirmation the answer to "Apply these changes?".
edit_project_by_slug(x, slug, updated_project, confirmation) ==
    Bind(get_project(x, slug), LAMBDA g :
      IF ~g.ok THEN Cmd(g.x, "get_failed", g.err)
      ELSE IF updated_project = g.val THEN Cmd(g.x, "no_changes", NoErr)
      ELSE IF ~confirmation THEN Cmd(g.x, "cancelled", NoErr)
      ELSE Bind(update_project(g.x, g.val.slug, updated_project), LAMBDA r :
             IF r.ok THEN Cmd(r.x, "updated", NoErr)
             ELSE Cmd(r.x, "update_failed", r.err)))

\* project delete <slug>: confirmation tells whether DELETE PROJECT was
\* typed.
delete_project_with_confirmation(x, slug, confirmation) ==
    Bind(get_project(x, slug), LAMBDA g :
      IF ~g.ok THEN Cmd(g.x, "get_failed", g.err)
      ELSE IF ~confirmation THEN Cmd(g.x, "cancelled", NoErr)
      ELSE Bind(delete_project(g.x, slug), LAMBDA r :
             IF r.ok THEN Cmd(r.x, "deleted", NoErr)
             ELSE Cmd(r.x, "delete_failed", r.err)))

-----------------------------------------------------------------------------
(* State *)

NoCall ==
    [op |-> "none", slug |-> "", arg |-> <<>>, ok |-> TRUE, err |-> NoErr,
     val |-> <<>>, log |-> <<>>, pre |-> [k \in Keys |-> Absent],
     io |-> <<>>, pre_cache |-> NoFile]

\* What happens to the probe and the login request of authenticate and to
\* its write of the cache file (none of them occurs in another call).
NoEnv == [probe |-> "ok", login |-> "net", write |-> TRUE]

SessionWith(f, env) ==
    [st |-> store, log |-> <<>>, f |-> f, token |-> token, cache |-> cache,
     now |-> now, io |-> <<>>, env |-> env]

Session(f) == SessionWith(f, NoEnv)

Idle == last.op = "none"

\* Two client instances (two runs of the tool at the same time).
Clients == {1, 2}

\* A client instance that is in no call.
NoClient ==
    [pc |-> "idle", op |-> "none", slug |-> "", elem |-> <<>>,
     read |-> [ok |-> TRUE, val |-> <<>>], ok |-> TRUE, err |-> NoErr]

NoClients == [c \in Clients |-> NoClient]

\* The call `op` ran with result r: the store is as the call left it and
\* `last` holds the call, its result, its requests and the store before it.
Called(op, slug, arg, r) ==
    /\ store' = r.x.st
    /\ token' = r.x.token
    /\ cache' = r.x.cache
    /\ last' = [op |-> op, slug |-> slug, arg |-> arg, ok |-> r.ok, err |-> r.err,
                val |-> r.val, log |-> r.x.log, pre |-> store,
                io |-> r.x.io, pre_cache |-> cache]
    /\ UNCHANGED <<now, clients>>

\* The list a key of the store holds, decoded ([] for an absent key).
ListAt(st, key) ==
    IF st[key].present THEN from_value(from_str(st[key].value.str)) ELSE <<>>

\* After main's attempt to authenticate (main.rs 132-135): with a token, or
\* with none when authenticate failed.
Init ==
    /\ store = [k \in Keys |-> Absent]
    /\ token \in {None, Some("tok")}
    /\ cache = NoFile
    /\ now = 0
    /\ last = NoCall
    /\ clients = NoClients

\* Number of time entries the store holds.
RECURSIVE CountEntries(_, _)
CountEntries(st, slugs) ==
    IF slugs = {} THEN 0
    ELSE LET s == CHOOSE s \in slugs : TRUE
         IN  Len(ListAt(st, time_key(s))) + CountEntries(st, slugs \ {s})

TotalEntries(st) == CountEntries(st, Slugs)

GetProject ==
    /\ Idle
    /\ \E slug \in Slugs, f \in Faults(1) :
         \E r \in {get_project(Session(f), slug)} :
           Called("get_project", slug, <<>>, r)

AddProject ==
    /\ Idle
    /\ \E p \in ProjectInputs, f \in Faults(2) :
         \E r \in {add_project(Session(f), p)} :
         /\ Len(ListAt(r.x.st, "projects")) <= MaxProjects
         /\ Called("add_project", p.slug, <<p>>, r)

UpdateProject ==
    /\ Idle
    /\ \E old_slug \in Slugs, p \in ProjectInputs, f \in Faults(5) :
         \E r \in {update_project(Session(f), old_slug, p)} :
           Called("update_project", old_slug, <<p>>, r)

DeleteProject ==
    /\ Idle
    /\ \E slug \in Slugs, f \in Faults(3) :
         \E r \in {delete_project(Session(f), slug)} :
           Called("delete_project", slug, <<>>, r)

AddTimeEntry ==
    /\ Idle
    /\ \E slug \in Slugs, e \in EntryInputs, f \in Faults(2) :
         \E r \in {add_time_entry(Session(f), slug, e)} :
         /\ TotalEntries(r.x.st) <= MaxEntries
         /\ Called("add_time_entry", slug, <<e>>, r)

DeleteTimeEntryByTimestamp ==
    /\ Idle
    /\ \E slug \in Slugs, ts \in 1..MaxTs, f \in Faults(2) :
         \E r \in {delete_time_entry_by_timestamp(Session(f), slug, ts)} :
           Called("delete_time_entry_by_timestamp", slug, <<ts>>, r)

UpdateTimeEntryByTimestamp ==
    /\ Idle
    /\ \E slug \in Slugs, ts \in 1..MaxTs, d \in EntryDescriptions,
          f \in Faults(2) :
         \E r \in {update_time_entry_by_timestamp(Session(f), slug, ts, d)} :
           Called("update_time_entry_by_timestamp", slug, <<ts, d>>, r)

DeleteProjectTimes ==
    /\ Idle
    /\ \E slug \in Slugs, f \in Faults(1) :
         \E r \in {delete_project_times(Session(f), slug)} :
           Called("delete_project_times", slug, <<>>, r)

Return ==
    /\ ~Idle
    /\ last' = NoCall
    /\ UNCHANGED <<store, token, cache, now, clients>>

Next ==
    \/ GetProject
    \/ AddProject
    \/ UpdateProject
    \/ DeleteProject
    \/ AddTimeEntry
    \/ DeleteTimeEntryByTimestamp
    \/ UpdateTimeEntryByTimestamp
    \/ DeleteProjectTimes
    \/ Return

Spec == Init /\ [][Next]_vars

-----------------------------------------------------------------------------
(* Authentication and the key-value primitives *)

\* Documents a caller stores under a key: lists, a string whose text is JSON
\* (the text of []), a string whose text is not.
Documents ==
    {Arr(<<>>), Arr(<<Project("n1", "a", "d")>>), Str(to_string(Arr(<<>>))),
     Str(Garbage)}

\* What can happen to the request of a primitive: as for every request, or
\* the store answers 404 whatever it holds.
KVOutcomes == Outcomes \cup {"e404"}
KVFaults == [1..1 -> KVOutcomes]

\* A value another tool left in the store: a string that is not the text of
\* a JSON document.
Legacy == Stored(Str(Garbage))

\* After ApiClient::new in a first run: no token; the cache file is absent
\* or holds a text left there that is no token cache.
InitAuth ==
    /\ store \in {[k \in Keys |-> Absent],
                  [k \in Keys |-> IF k = time_key("a") THEN Legacy ELSE Absent]}
    /\ token = None
    /\ cache \in {NoFile, File(Garbage), File(to_string(Arr(<<>>)))}
    /\ now = 0
    /\ last = NoCall
    /\ clients = NoClients

\* The process ends and the tool is run again: ApiClient::new.
NewRun ==
    /\ Idle
    /\ token # None
    /\ token' = None
    /\ UNCHANGED <<store, last, cache, now, clients>>

\* Time passes.
Tick ==
    /\ Idle
    /\ now + TokenLifetime <= MaxTicks * TokenLifetime
    /\ now' = now + TokenLifetime
    /\ UNCHANGED <<store, token, last, cache, clients>>

\* main.rs 132: authenticate is called once, on the new client.  The call
\* is recorded with what happens to its requests and to its write.
Authenticate ==
    /\ Idle
    /\ token = None
    /\ \E probe \in ProbeOutcomes, login \in LoginOutcomes, write \in BOOLEAN :
         \E env \in {[probe |-> probe, login |-> login, write |-> write]} :
           \E r \in {authenticate(SessionWith(<<>>, env))} :
             Called("authenticate", "", <<env>>, r)

GetKey ==
    /\ Idle
    /\ \E key \in Keys, f \in KVFaults :
         \E r \in {get_key(Session(f), key)} :
           Called("get_key", key, <<>>, r)

SetKey ==
    /\ Idle
    /\ \E key \in Keys, value \in Documents, f \in KVFaults :
         \E r \in {set_key(Session(f), key, value)} :
           Called("set_key", key, <<value>>, r)

UpdateKey ==
    /\ Idle
    /\ \E key \in Keys, value \in Documents, f \in KVFaults :
         \E r \in {update_key(Session(f), key, value)} :
           Called("update_key", key, <<value>>, r)

DeleteKey ==
    /\ Idle
    /\ \E key \in Keys, f \in KVFaults :
         \E r \in {delete_key(Session(f), key)} :
           Called("delete_key", key, <<>>, r)

GetAllKeys ==
    /\ Idle
    /\ \E f \in KVFaults :
         \E r \in {get_all_keys(Session(f))} :
           Called("get_all_keys", DataUrl, <<>>, r)

NextAuth ==
    \/ NewRun
    \/ Tick
    \/ Authenticate
    \/ GetKey
    \/ SetKey
    \/ UpdateKey
    \/ DeleteKey
    \/ GetAllKeys
    \/ Return

SpecAuth == InitAuth /\ [][NextAuth]_vars

-----------------------------------------------------------------------------
(* The derivations of the commands, applied to the entries of a key *)

InitPure ==
    /\ store = [k \in Keys |-> Absent]
    /\ token = None
    /\ cache = NoFile
    /\ now = 0
    /\ last = NoCall
    /\ clients = NoClients

\* commands.rs 50, 111, 237: is_project_running(&entries)
IsProjectRunning ==
    /\ Idle
    /\ \E entries \in EntryLists :
         Called("is_project_running", "", <<entries>>,
                Ok(Session(<<>>), is_project_running(entries)))

\* commands.rs 215: calculate_total_time(&entries), in a build that checks
\* overflow or in one that does not.
CalculateTotalTime ==
    /\ Idle
    /\ \E entries \in EntryLists, overflow_checks \in BOOLEAN :
         \E t \in {calculate_total_time(entries, overflow_checks)} :
           Called("calculate_total_time", "", <<entries, overflow_checks>>,
                  [x |-> Session(<<>>), ok |-> t.ok, val |-> t.val,
                   err |-> IF t.ok THEN NoErr ELSE Err("panic", 0, "")])

NextPure ==
    \/ IsProjectRunning
    \/ CalculateTotalTime
    \/ Return

SpecPure == InitPure /\ [][NextPure]_vars

-----------------------------------------------------------------------------
(* Two client instances adding to the lists of one store.  Each request is *)
(* one step; between the read of a call and its write the other instance   *)
(* can take steps.                                                          *)

InitRace ==
    /\ store = [k \in Keys |-> Absent]
    /\ token = Some("tok")
    /\ cache = NoFile
    /\ now = 0
    /\ last = NoCall
    /\ clients = NoClients

\* What can happen to the request of a step: the store answers it, or it
\* fails (answered with status 500).
RaceOutcomes == {"ok", "e500"}

\* The session of a step whose request meets the outcome o.
StepSession(o) == Session([i \in 1..2 |-> o])

\* What a client keeps of the list it has read.
ReadResult(r) == [ok |-> r.ok, val |-> r.val]

\* The result of the read, in the session of the step that goes on from it.
Resumed(c, o) ==
    [x |-> StepSession(o), ok |-> clients[c].read.ok,
     val |-> clients[c].read.val, err |-> NoErr]

Finished(c, w) ==
    /\ store' = w.x.st
    /\ clients' = [clients EXCEPT ![c].pc = "done", ![c].ok = w.ok,
                                  ![c].err = w.err]
    /\ UNCHANGED <<token, last, cache, now>>

\* add_time_entry up to get_time_entries(project_slug).await (api.rs 357).
ReadTimeEntries ==
    \E c \in Clients, slug \in Slugs, e \in EntryInputs, o \in RaceOutcomes :
      /\ clients[c].pc = "idle"
      /\ TotalEntries(store) < MaxEntries
      /\ \E r \in {get_time_entries(StepSession(o), slug)} :
           /\ store' = r.x.st
           /\ clients' = [clients EXCEPT ![c] =
                            [NoClient EXCEPT !.pc = "read",
                                             !.op = "add_time_entry",
                                             !.slug = slug, !.elem = e,
                                             !.read = ReadResult(r)]]
      /\ UNCHANGED <<token, last, cache, now>>

\* add_time_entry from there to its return (api.rs 358-367).
WriteTimeEntries ==
    \E c \in Clients, o \in RaceOutcomes :
      /\ clients[c].pc = "read"
      /\ clients[c].op = "add_time_entry"
      /\ \E w \in {add_time_entry_from(Resumed(c, o), clients[c].slug,
                                       clients[c].elem)} :
           Finished(c, w)

\* add_project up to get_projects().await (api.rs 288).
ReadProjects ==
    \E c \in Clients, p \in ProjectInputs, o \in RaceOutcomes :
      /\ clients[c].pc = "idle"
      /\ Len(ListAt(store, "projects")) < MaxProjects
      /\ \E r \in {get_projects(StepSession(o))} :
           /\ store' = r.x.st
           /\ clients' = [clients EXCEPT ![c] =
                            [NoClient EXCEPT !.pc = "read",
                                             !.op = "add_project",
                                             !.slug = p.slug, !.elem = p,
                                             !.read = ReadResult(r)]]
      /\ UNCHANGED <<token, last, cache, now>>

\* add_project from there to its return (api.rs 290-304).
WriteProjects ==
    \E c \in Clients, o \in RaceOutcomes :
      /\ clients[c].pc = "read"
      /\ clients[c].op = "add_project"
      /\ \E w \in {add_project_from(Resumed(c, o), clients[c].elem)} :
           Finished(c, w)

\* The call of a client has returned; the instance is free for the next.
ClientReturn ==
    \E c \in Clients :
      /\ clients[c].pc = "done"
      /\ clients' = [clients EXCEPT ![c] = NoClient]
      /\ UNCHANGED <<store, token, last, cache, now>>

NextRace ==
    \/ ReadTimeEntries
    \/ WriteTimeEntries
    \/ ReadProjects
    \/ WriteProjects
    \/ ClientReturn

SpecRace == InitRace /\ [][NextRace]_vars

-----------------------------------------------------------------------------
(* The commands time start and time stop of one client, and its clock *)

\* Most entries the store holds over all keys when a command may add one.
MaxTracked == 3

\* What can happen to a request of a command: the store answers it, or it
\* fails (answered with status 500).
CmdOutcomes == {"ok", "e500"}

\* The outcomes of the requests of one command that sends at most n.
CmdFaults(n) == [1..n -> CmdOutcomes]

\* --description of time stop (time start takes one of EntryDescriptions).
StopDescriptions == {"d"}

InitTrack ==
    /\ store = [k \in Keys |-> Absent]
    /\ token = Some("tok")
    /\ cache = NoFile
    /\ now = 0
    /\ last = NoCall
    /\ clients = NoClients

\* Utc::now() moves on.
ClockAdvance ==
    /\ Idle
    /\ now < MaxTs
    /\ now' = now + 1
    /\ UNCHANGED <<store, token, last, cache, clients>>

\* Utc::now() is set back (the system clock is corrected).
ClockStepsBack ==
    /\ Idle
    /\ \E t \in 0..(now - 1) : now' = t
    /\ UNCHANGED <<store, token, last, cache, clients>>

StartTracking ==
    /\ Idle
    /\ TotalEntries(store) < MaxTracked
    /\ \E slug \in Slugs, d \in EntryDescriptions, f \in CmdFaults(4) :
         \E r \in {start_tracking(Session(f), slug, d)} :
           Called("start_tracking", slug, <<d>>, r)

EndTracking ==
    /\ Idle
    /\ TotalEntries(store) < MaxTracked
    /\ \E slug \in Slugs, d \in StopDescriptions, f \in CmdFaults(4) :
         \E r \in {end_tracking(Session(f), slug, d)} :
           Called("end_tracking", slug, <<d>>, r)

\* The clock of the client never goes backwards.
NextTrack ==
    \/ ClockAdvance
    \/ StartTracking
    \/ EndTracking
    \/ Return

SpecTrack == InitTrack /\ [][NextTrack]_vars

\* The clock of the client can be set back between commands.
NextClock ==
    \/ ClockAdvance
    \/ ClockStepsBack
    \/ StartTracking
    \/ EndTracking
    \/ Return

SpecClock == InitTrack /\ [][NextClock]_vars

-----------------------------------------------------------------------------
(* The commands of one client that change the store *)

\* Lines typed at the prompt of time delete --all.
TypedLines ==
    { <<"DELETE", " ", "ALL", "\n">>,
      <<" ", "DELETE", " ", "ALL", " ", "\n">>,
      <<"DELETE", " ", " ", "ALL", "\n">>,
      <<"delete", " ", "all", "\n">>,
      <<"DELETE", " ", "ALL", " ", "x", "\n">>,
      <<"\n">>,
      <<>> }

ReadLines == {ReadLine(l) : l \in TypedLines} \cup {ReadLineError}

\* Lines typed at the prompt for the new description, trimmed: nothing, the
\* word CLEAR (in capitals; the code takes it in any case), a text.
NewDescriptionLines == {"", "CLEAR", "w"}

DeleteTimes ==
    /\ Idle
    /\ \E slug \in Slugs, ts \in {None} \cup {Some(t) : t \in 0..MaxTs},
          all \in BOOLEAN, f \in CmdFaults(2) :
         \* the terminal is read only at the prompt of --all without
         \* --timestamp
         \E l \in IF ts = None /\ all THEN ReadLines ELSE {ReadLine(<<>>)} :
           \E r \in {delete_times(Session(f), slug, ts, all, l)} :
             Called("delete_times", slug, <<ts, all, l>>, r)

EditTimeEntry ==
    /\ Idle
    /\ \E slug \in Slugs, n \in 0..MaxTracked, d \in NewDescriptionLines,
          f \in CmdFaults(3) :
         \E r \in {edit_time_entry(Session(f), slug, n, d)} :
           Called("edit_time_entry", slug, <<n, d>>, r)

AddProjectCommand ==
    /\ Idle
    /\ \E p \in ProjectInputs, f \in CmdFaults(2) :
         \E r \in {add_project_command(Session(f), p)} :
         /\ Len(ListAt(r.x.st, "projects")) <= MaxProjects
         /\ Called("add_project_command", p.slug, <<p>>, r)

EditProjectBySlug ==
    /\ Idle
    /\ \E slug \in Slugs, p \in ProjectInputs, c \in BOOLEAN,
          f \in CmdFaults(6) :
         \E r \in {edit_project_by_slug(Session(f), slug, p, c)} :
           Called("edit_project_by_slug", slug, <<p, c>>, r)

DeleteProjectWithConfirmation ==
    /\ Idle
    /\ \E slug \in Slugs, c \in BOOLEAN, f \in CmdFaults(4) :
         \E r \in {delete_project_with_confirmation(Session(f), slug, c)} :
           Called("delete_project_with_confirmation", slug, <<c>>, r)

\* The time commands.
NextTime ==
    \/ ClockAdvance
    \/ StartTracking
    \/ EndTracking
    \/ DeleteTimes
    \/ EditTimeEntry
    \/ Return

SpecTime == InitTrack /\ [][NextTime]_vars

\* The project commands and the time commands that add or remove entries.
NextCli ==
    \/ StartTracking
    \/ EndTracking
    \/ DeleteTimes
    \/ AddProjectCommand
    \/ EditProjectBySlug
    \/ DeleteProjectWithConfirmation
    \/ Return

SpecCli == InitTrack /\ [][NextCli]_vars

-----------------------------------------------------------------------------
(* Vocabulary of the properties *)

IsWrite(q) == q.method \in {"POST", "PUT", "DELETE"}
Writes(log) == SelectSeq(log, IsWrite)

\* A get answered by the store returns [] for the key.
GetReturnsEmpty(st, key) == ListAt(st, key) = <<>>

Slugs_of(projects) == {projects[i].slug : i \in DOMAIN projects}
UniqueSlugs(projects) ==
    \A i, j \in DOMAIN projects : projects[i].slug = projects[j].slug => i = j

Renames == last.op = "update_project" /\ last.arg[1].slug # last.slug

-----------------------------------------------------------------------------
(* C1 *)

\* C1: a set (POST) is sent only for a key that does not exist in the store
\* when it is sent, and an update (PUT) only for a key that exists.
C1_SetOnlyForAbsentKey ==
    \A i \in DOMAIN last.log :
      /\ last.log[i].method = "POST" => ~last.log[i].existed
      /\ last.log[i].method = "PUT" => last.log[i].existed

-----------------------------------------------------------------------------
(* C2 *)

\* C2: after a successful update_project that changes the slug, the key of
\* the new slug holds exactly the entries the key of the old slug held
\* before the call, and get on the key of the old slug returns [].
C2_RenameMovesEntries ==
    (Renames /\ last.ok) =>
      /\ ListAt(store, time_key(last.arg[1].slug))
           = ListAt(last.pre, time_key(last.slug))
      /\ GetReturnsEmpty(store, time_key(last.slug))

-----------------------------------------------------------------------------
(* C3 *)

DomainOps ==
    {"add_project", "update_project", "delete_project", "add_time_entry",
     "delete_time_entry_by_timestamp", "update_time_entry_by_timestamp"}

SingleWriteOps ==
    {"add_project", "add_time_entry", "delete_time_entry_by_timestamp",
     "update_time_entry_by_timestamp"}

\* C3 as stated: every domain operation sends at most one mutating request,
\* and when it returns an error no key of the store differs from before.
C3_EveryMutationSingleRequest ==
    last.op \in DomainOps =>
      /\ Len(Writes(last.log)) <= 1
      /\ ~last.ok => store = last.pre

\* C3 amended: add_project, add_time_entry, delete_time_entry_by_timestamp,
\* update_time_entry_by_timestamp and an update_project that keeps the slug
\* send at most one mutating request and leave every key as it was when they
\* return an error; delete_project sends at most two mutating requests and a
\* renaming update_project at most three.
C3_SingleWriteOperations ==
    /\ (last.op \in SingleWriteOps \/ (last.op = "update_project" /\ ~Renames)) =>
         /\ Len(Writes(last.log)) <= 1
         /\ ~last.ok => store = last.pre
    /\ last.op = "delete_project" => Len(Writes(last.log)) <= 2
    /\ Renames => Len(Writes(last.log)) <= 3

\* A single-write operation sent its write and returned an error.
C3_Witness ==
    /\ last.op \in SingleWriteOps
    /\ ~last.ok
    /\ Len(Writes(last.log)) = 1

-----------------------------------------------------------------------------
(* C4 *)

\* C4: when update_project returns an error the stored projects list is the
\* list stored before the call, and the update of the projects key is the
\* last request update_project sends.
C4_FailedUpdateKeepsList ==
    last.op = "update_project" =>
      /\ ~last.ok => store["projects"] = last.pre["projects"]
      /\ \A i \in DOMAIN last.log :
           (last.log[i].method = "PUT" /\ last.log[i].key = "projects")
             => i = Len(last.log)

\* A rename failed at the delete of the old key, after the set of the new
\* key had been accepted.
C4_Witness ==
    /\ Renames
    /\ ~last.ok
    /\ Len(Writes(last.log)) = 2
    /\ store # last.pre

-----------------------------------------------------------------------------
(* C5 *)

ReadFailed(q) ==
    q.method = "GET" /\ ~IsSuccess(q.status) /\ q.status # 404

\* C5: when a read of a domain operation fails, the operation returns that
\* failure and sends no write request.
C5_ReadFailurePropagates ==
    (last.op \in DomainOps /\ \E i \in DOMAIN last.log : ReadFailed(last.log[i])) =>
      /\ ~last.ok
      /\ last.err.kind \in {"api", "net"}
      /\ Writes(last.log) = <<>>

-----------------------------------------------------------------------------
(* C6 *)

\* C6: add_project with a slug present in the stored list fails with the
\* duplicate-slug error, sends no write request and leaves the list as it was.
C6_DuplicateSlugRejected ==
    (last.op = "add_project"
       /\ last.slug \in Slugs_of(ListAt(last.pre, "projects"))) =>
      /\ ~last.ok
      /\ last.err.kind = "duplicate"
      /\ Writes(last.log) = <<>>
      /\ store["projects"] = last.pre["projects"]

-----------------------------------------------------------------------------
(* C7 *)

\* C7: the stored projects list never holds two projects with the same slug.
C7_UniqueSlugs == UniqueSlugs(ListAt(store, "projects"))

\* An add of a slug that the full list already holds sent a write request
\* (its read of the list had failed).
C7_Witness ==
    /\ last.op = "add_project"
    /\ Len(ListAt(last.pre, "projects")) = 2
    /\ last.slug \in Slugs_of(ListAt(last.pre, "projects"))
    /\ Writes(last.log) # <<>>

-----------------------------------------------------------------------------
(* C8 *)

\* C8: a successful add_project (add_time_entry) leaves the stored list equal
\* to the list stored before the call with the new element appended.
C8_AddAppends ==
    /\ (last.op = "add_project" /\ last.ok) =>
         ListAt(store, "projects")
           = Append(ListAt(last.pre, "projects"), last.arg[1])
    /\ (last.op = "add_time_entry" /\ last.ok) =>
         ListAt(store, time_key(last.slug))
           = Append(ListAt(last.pre, time_key(last.slug)), last.arg[1])

\* An entry was added to a list that held one already.
C8_Witness ==
    /\ last.op = "add_time_entry"
    /\ last.ok
    /\ ListAt(last.pre, time_key(last.slug)) # <<>>
    /\ ListAt(last.pre, time_key(last.slug))[1] # last.arg[1]

-----------------------------------------------------------------------------
(* C9 *)

\* C9: after a successful delete_project of a listed slug the list holds no
\* project with the slug, the other projects are stored unchanged and in the
\* same order, and get on the time-entry key of the slug returns [].
C9_DeleteProjectRemovesAll ==
    (last.op = "delete_project" /\ last.ok) =>
      LET keep(p) == p.slug # last.slug IN
      /\ last.slug \notin Slugs_of(ListAt(store, "projects"))
      /\ ListAt(store, "projects") = SelectSeq(ListAt(last.pre, "projects"), keep)
      /\ GetReturnsEmpty(store, time_key(last.slug))

-----------------------------------------------------------------------------
(* C10 *)

AbsentSlugCall ==
    /\ last.op \in {"get_project", "update_project", "delete_project"}
    /\ last.slug \notin Slugs_of(ListAt(last.pre, "projects"))

\* C10 as stated: for a slug absent from the stored list get_project,
\* update_project and delete_project fail with the not-found error and send
\* no write request, so the store is unchanged.
C10_AbsentSlugNotFound ==
    AbsentSlugCall =>
      /\ ~last.ok
      /\ last.err.kind = "not_found"
      /\ Writes(last.log) = <<>>
      /\ store = last.pre

\* C10 amended: for a slug absent from the stored list update_project and
\* delete_project fail with the not-found error, get_project fails with the
\* not-found error when its read of the list is answered and with the
\* failure of that read otherwise (the request failed, or was not sent for
\* want of a token), and none of them sends a write request.
C10_AbsentSlugFails ==
    AbsentSlugCall =>
      /\ ~last.ok
      /\ IF last.op = "get_project" /\ last.log = <<>>
         THEN last.err.kind = "not_authenticated"
         ELSE IF last.op = "get_project" /\ ReadFailed(last.log[1])
         THEN last.err.kind \in {"api", "net"}
         ELSE last.err.kind = "not_found"
      /\ Writes(last.log) = <<>>
      /\ store = last.pre

\* delete_project of an absent slug on a list that holds another project.
C10_Witness ==
    /\ last.op = "delete_project"
    /\ last.slug \notin Slugs_of(ListAt(last.pre, "projects"))
    /\ ListAt(last.pre, "projects") # <<>>
    /\ IsSuccess(last.log[1].status)

-----------------------------------------------------------------------------
(* C11 *)

\* update_project is called for a listed project with a new slug that another
\* project of the stored list has.
Collides ==
    /\ last.op = "update_project"
    /\ last.slug \in Slugs_of(ListAt(last.pre, "projects"))
    /\ last.arg[1].slug # last.slug
    /\ last.arg[1].slug \in Slugs_of(ListAt(last.pre, "projects"))

\* C11: update_project fails with the duplicate-slug error exactly when the
\* new slug differs from the old one and is the slug of another project of
\* the list, and then it sends no write request; it never fails with that
\* error when the slug stays the same.
C11_DuplicateExactlyOnCollision ==
    last.op = "update_project" =>
      /\ (~last.ok /\ last.err.kind = "duplicate") <=> Collides
      /\ Collides => Writes(last.log) = <<>>

-----------------------------------------------------------------------------
(* C12 *)

ByTimestampOps ==
    {"delete_time_entry_by_timestamp", "update_time_entry_by_timestamp"}

\* The list the call is to write: without the entries of the timestamp
\* (delete), or with the description of the first entry of the timestamp
\* replaced (update).
ModifiedEntries(op, entries, arg) ==
    IF op = "delete_time_entry_by_timestamp"
    THEN LET keep(e) == e.timestamp # arg[1] IN SelectSeq(entries, keep)
    ELSE LET first == CHOOSE i \in DOMAIN entries :
                        /\ entries[i].timestamp = arg[1]
                        /\ \A j \in 1..(i - 1) : entries[j].timestamp # arg[1]
         IN  [entries EXCEPT ![first].description = arg[2]]

\* C12: called with a timestamp that no stored entry of the project has,
\* delete_time_entry_by_timestamp and update_time_entry_by_timestamp fail with
\* the not-found error, send no write request and leave the store as it was;
\* when an entry has the timestamp they send exactly one write request, an
\* update of the key with the whole modified list.
C12_ByTimestampNotFoundOrOneUpdate ==
    last.op \in ByTimestampOps =>
      LET entries == ListAt(last.pre, time_key(last.slug))
          matches == \E i \in DOMAIN entries : entries[i].timestamp = last.arg[1]
          writes == Writes(last.log)
      IN  IF ~matches
          THEN /\ ~last.ok
               /\ last.err.kind = "not_found"
               /\ writes = <<>>
               /\ store = last.pre
          ELSE /\ Len(writes) = 1
               /\ writes[1].method = "PUT"
               /\ writes[1].key = time_key(last.slug)
               /\ writes[1].body
                    = Str(to_string(to_value(
                           ModifiedEntries(last.op, entries, last.arg))))

-----------------------------------------------------------------------------
(* Vocabulary of the properties of authenticate and the primitives *)

KVOps == {"get_key", "set_key", "update_key", "delete_key", "get_all_keys"}

IsProbe(q) == q.method = "GET" /\ q.key = DataUrl /\ q.auth # NoHeader
IsLogin(q) == q.method = "POST" /\ q.key = LoginUrl
IsCacheRead(e) == e.op = "read"
IsCacheWrite(e) == e.op = "write"

\* The request was answered with a 2xx or a 404 status.
AnsweredValid(q) == IsSuccess(q.status) \/ q.status = 404

\* authenticate ran and its load of the cache yielded a credential.
AuthenticateWithCached ==
    last.op = "authenticate" /\ last.io[1].result # None

\* What a load of the cache file would return now.
LoadNow == load_cached_token(SessionWith(<<>>, NoEnv)).val

-----------------------------------------------------------------------------
(* C13 *)

\* C13: get_key, set_key, update_key, delete_key and get_all_keys called
\* while the client has no token fail with the not-authenticated error and
\* send no request.
C13_NoTokenNoRequest ==
    (last.op \in KVOps /\ token = None) =>
      /\ ~last.ok
      /\ last.err.kind = "not_authenticated"
      /\ last.log = <<>>

\* A primitive was called on a client whose authenticate had failed.
C13_Witness ==
    /\ last.op = "get_all_keys"
    /\ token = None
    /\ ~last.ok

-----------------------------------------------------------------------------
(* C14 *)

\* C14: every domain operation called while the client has no token fails
\* with the not-authenticated error.
C14_NoTokenNotAuthenticated ==
    (last.op \in DomainOps \cup {"get_project"} /\ token = None) =>
      /\ ~last.ok
      /\ last.err.kind = "not_authenticated"

-----------------------------------------------------------------------------
(* C15 *)

\* C15: when the cache yields a credential, authenticate probes it; when the
\* probe is answered 2xx or 404 the credential is accepted, no login request
\* is sent and the cache file is not written; on every other outcome of the
\* probe the login request is sent.
C15_ProbeDecidesLogin ==
    AuthenticateWithCached =>
      /\ IsProbe(last.log[1])
      /\ last.log[1].auth = Bearer(last.io[1].result[1])
      /\ IF AnsweredValid(last.log[1])
         THEN /\ last.ok
              /\ token = last.io[1].result
              /\ Len(last.log) = 1
              /\ Len(last.io) = 1
              /\ cache = last.pre_cache
         ELSE /\ Len(last.log) = 2
              /\ IsLogin(last.log[2])

\* A cached credential was accepted on a probe answered 404.
C15_Witness ==
    /\ AuthenticateWithCached
    /\ last.log[1].status = 404
    /\ last.ok

-----------------------------------------------------------------------------
(* C16 *)

\* C16: when the login request is answered with a status that is not 2xx,
\* authenticate fails with the authentication-failed error carrying that
\* status, the client has no token and the cache file is as it was.
C16_LoginRejected ==
    (/\ last.op = "authenticate"
     /\ \E i \in DOMAIN last.log :
          /\ IsLogin(last.log[i])
          /\ last.log[i].status # 0
          /\ ~IsSuccess(last.log[i].status)) =>
      /\ ~last.ok
      /\ last.err.kind = "authentication_failed"
      /\ last.err.status = last.log[Len(last.log)].status
      /\ token = None
      /\ cache = last.pre_cache
      /\ SelectSeq(last.io, IsCacheWrite) = <<>>

\* The login was answered 401 after the probe of a cached credential failed.
C16_Witness ==
    /\ AuthenticateWithCached
    /\ Len(last.log) = 2
    /\ last.log[2].status = 401
    /\ last.pre_cache.exists

-----------------------------------------------------------------------------
(* C17 *)

\* C17: after a successful authenticate the client has a token, the cached
\* one when the probe accepted it and else the one of the login response,
\* and every request a primitive sends afterwards carries it as
\* Authorization: Bearer <token>.
C17_BearerOfActiveToken ==
    /\ (last.op = "authenticate" /\ last.ok) =>
         /\ token # None
         /\ token = IF AuthenticateWithCached /\ AnsweredValid(last.log[1])
                    THEN last.io[1].result
                    ELSE Some(last.arg[1].login)
    /\ last.op \in KVOps =>
         \A i \in DOMAIN last.log :
           token # None /\ last.log[i].auth = Bearer(token[1])

\* A login replaced a cached token that the probe had not accepted by
\* another token.
C17_Witness ==
    /\ AuthenticateWithCached
    /\ last.ok
    /\ Len(last.log) = 2
    /\ token # last.io[1].result

-----------------------------------------------------------------------------
(* C18 *)

\* C18: the load of the token cache returns the token of the file only when
\* the file parses as a token cache whose expires_at is later than now; when
\* the file is absent or does not parse it returns nothing and authenticate
\* goes on to the login.
C18_LoadOnlyUnexpired ==
    last.op = "authenticate" =>
      LET file == last.pre_cache
          parses == /\ file.exists
                    /\ IsJsonText(file.content)
                    /\ IsTokenCache(from_str(file.content))
          load == last.io[1]
      IN  /\ IsCacheRead(load)
          /\ load.result # None =>
               /\ parses
               /\ from_str(file.content).expires_at > now
               /\ load.result = Some(from_str(file.content).token)
          /\ ~parses =>
               /\ load.result = None
               /\ IsLogin(last.log[1])

\* The file held a credential that expires at this very instant.
C18_Witness ==
    /\ last.op = "authenticate"
    /\ last.pre_cache.exists
    /\ IsJsonText(last.pre_cache.content)
    /\ IsTokenCache(from_str(last.pre_cache.content))
    /\ from_str(last.pre_cache.content).expires_at = now
    /\ last.io[1].result = None

-----------------------------------------------------------------------------
(* C19 *)

\* C19: once authenticate has probed a cached credential and the probe has
\* failed, a load does not return that credential any more, whether the
\* login that follows succeeds or not.
C19_FailedProbeInvalidates ==
    (AuthenticateWithCached /\ ~AnsweredValid(last.log[1])) =>
      \/ LoadNow = None
      \/ cache # last.pre_cache

-----------------------------------------------------------------------------
(* C20 *)

\* C20: a primitive sends at most one request; authenticate reads the cache
\* file at most once, sends at most one probe and at most one login request
\* and writes the cache file at most once, and only after a login request
\* that was answered 2xx.
C20_NoRetries ==
    /\ last.op \in KVOps => Len(last.log) <= 1
    /\ last.op = "authenticate" =>
         /\ Len(SelectSeq(last.io, IsCacheRead)) <= 1
         /\ Len(SelectSeq(last.log, IsProbe)) <= 1
         /\ Len(SelectSeq(last.log, IsLogin)) <= 1
         /\ Len(SelectSeq(last.io, IsCacheWrite)) <= 1
         /\ Len(SelectSeq(last.log, IsProbe))
              + Len(SelectSeq(last.log, IsLogin)) = Len(last.log)
         /\ SelectSeq(last.io, IsCacheWrite) # <<>> =>
              /\ IsLogin(last.log[Len(last.log)])
              /\ IsSuccess(last.log[Len(last.log)].status)

\* The probe failed in transport and the login request did too.
C20_Witness ==
    /\ AuthenticateWithCached
    /\ Len(last.log) = 2
    /\ last.log[1].status = 0
    /\ last.log[2].status = 0

-----------------------------------------------------------------------------
(* C21 *)

\* The call was a primitive that sent its request, and the request was
\* answered with this status.
Answered(op, status) ==
    /\ last.op = op
    /\ Len(last.log) = 1
    /\ last.log[1].status = status

\* C21: a get whose request is answered 404 returns the empty array and no
\* error, whatever the key.
C21_Get404IsEmpty ==
    \A key \in Keys :
      (Answered("get_key", 404) /\ last.slug = key) =>
        /\ last.ok
        /\ last.val = Arr(<<>>)

\* A get of a key the store does not hold.
C21_Witness ==
    /\ Answered("get_key", 404)
    /\ ~last.log[1].existed
    /\ last.ok

-----------------------------------------------------------------------------
(* C22 *)

\* The value the store held under the key of the call when it was made.
StoredBefore == last.pre[last.slug].value

\* C22: a get answered 2xx returns the document parsed from the stored
\* string when the string parses and the stored value itself when it does
\* not; a get answered with a status that is neither 2xx nor 404 fails with
\* an ApiError of that status.
C22_GetDecodes ==
    (last.op = "get_key" /\ Len(last.log) = 1) =>
      /\ IsSuccess(last.log[1].status) =>
           /\ last.ok
           /\ IF IsJsonText(StoredBefore.str)
              THEN last.val = from_str(StoredBefore.str)
              ELSE last.val = StoredBefore
      /\ (last.log[1].status \notin (200..299) \cup {0, 404}) =>
           /\ ~last.ok
           /\ last.err = Err("api", last.log[1].status, "")

\* A get of a stored string that does not parse returned it.
C22_Witness ==
    /\ last.op = "get_key"
    /\ Len(last.log) = 1
    /\ IsSuccess(last.log[1].status)
    /\ ~IsJsonText(StoredBefore.str)
    /\ last.ok

-----------------------------------------------------------------------------
(* C23 *)

\* What a get of the key of the call returns now, when nothing fails.
GetNow == get_key(SessionWith(<<"ok">>, NoEnv), last.slug)

-----------------------------------------------------------------------------
(* C24 *)

\* C24: of the primitives only get takes a 404 for absence; a set, an
\* update, a listing and a delete of a key answered 404 fail with an
\* ApiError of status 404.
C24_Only404AbsenceInGet ==
    \A op \in KVOps :
      Answered(op, 404) =>
        IF op = "get_key"
        THEN last.ok
        ELSE ~last.ok /\ last.err = Err("api", 404, "")

\* A delete of a key the store does not hold failed.
C24_Witness ==
    /\ Answered("delete_key", 404)
    /\ ~last.log[1].existed
    /\ ~last.ok

-----------------------------------------------------------------------------
(* C25 *)

IsListWrite(q) == q.method = "PUT" /\ q.key = "projects"

\* C25: when the deletion of the time-entry key inside delete_project or
\* inside a renaming update_project fails otherwise than by an answer 404,
\* the operation fails and does not go on to write the projects list.
C25_DeleteToleratedOnly404 ==
    last.op \in {"delete_project", "update_project"} =>
      \A i \in 1..Len(last.log) :
        (/\ last.log[i].method = "DELETE"
         /\ last.log[i].status \notin (200..299) \cup {404}) =>
          /\ ~last.ok
          /\ \A j \in (i + 1)..Len(last.log) : ~IsListWrite(last.log[j])

-----------------------------------------------------------------------------
(* C26 *)

\* The entries the derivation was given, in the order it was given them.
GivenEntries == last.arg[1]

Positions(entries) == 1..Len(entries)

\* The positions of the entries with the largest timestamp.
AtMax(entries) ==
    {i \in Positions(entries) :
       \A j \in Positions(entries) :
         entries[j].timestamp <= entries[i].timestamp}

\* The last of them in the order given.
LastAtMax(entries) ==
    CHOOSE i \in AtMax(entries) : \A j \in AtMax(entries) : j <= i

\* C26 as stated: is_project_running is false for the empty list and
\* otherwise true exactly when the entry with the largest timestamp is a
\* start, in whatever order the entries are given.
C26_RunningIffMaxIsStart ==
    last.op = "is_project_running" =>
      IF GivenEntries = <<>> THEN last.val = FALSE
      ELSE \A i \in AtMax(GivenEntries) :
             last.val = (GivenEntries[i].type = "start")

\* C26: is_project_running is false for the empty list and otherwise true
\* exactly when, of the entries with the largest timestamp, the one given
\* last is a start.
C26_RunningIffLastOfMaxIsStart ==
    last.op = "is_project_running" =>
      IF GivenEntries = <<>> THEN last.val = FALSE
      ELSE last.val
             = (GivenEntries[LastAtMax(GivenEntries)].type = "start")

\* The largest timestamp is shared by an end and, given after it, a start:
\* the project is running.
C26_Witness ==
    /\ last.op = "is_project_running"
    /\ \E i, j \in AtMax(GivenEntries) :
         /\ i < j
         /\ GivenEntries[i].type = "end"
         /\ GivenEntries[j].type = "start"
    /\ last.val = TRUE

-----------------------------------------------------------------------------
(* C27 *)

TotalCall == last.op = "calculate_total_time"

\* What the call came to: a total, or a panic.
Outcome == [ok |-> last.ok, val |-> last.val]

Permuted(entries, p) == [i \in Positions(entries) |-> entries[p[i]]]

\* p leaves the entries of the same timestamp in the order they had.
KeepsTies(entries, p) ==
    \A i, j \in Positions(entries) :
      (i < j /\ entries[p[i]].timestamp = entries[p[j]].timestamp)
        => p[i] < p[j]

\* C27 as stated: calculate_total_time comes to the same for every
\* permutation of its list, timestamps distinct or not.
C27_OrderInvariant ==
    TotalCall =>
      \A p \in Permutations(Positions(GivenEntries)) :
        calculate_total_time(Permuted(GivenEntries, p), last.arg[2]) = Outcome

\* C27: calculate_total_time comes to the same for every permutation of
\* its list that leaves the entries of the same timestamp in the order they
\* had, so for every permutation of a list of distinct timestamps.
C27_OrderInvariantUpToTies ==
    TotalCall =>
      \A p \in Permutations(Positions(GivenEntries)) :
        KeepsTies(GivenEntries, p) =>
          calculate_total_time(Permuted(GivenEntries, p), last.arg[2])
            = Outcome

\* A list given out of order, two of its entries sharing a timestamp, came
\* to a total.
C27_Witness ==
    /\ TotalCall
    /\ last.ok
    /\ last.val > 0
    /\ \E i, j \in Positions(GivenEntries) :
         /\ i < j
         /\ GivenEntries[i].timestamp = GivenEntries[j].timestamp
    /\ \E i, j \in Positions(GivenEntries) :
         /\ i < j
         /\ GivenEntries[i].timestamp > GivenEntries[j].timestamp

-----------------------------------------------------------------------------
(* C28 *)

\* The list without its i-th entry.
Without(entries, i) ==
    [k \in 1..(Len(entries) - 1) |->
       IF k < i THEN entries[k] ELSE entries[k + 1]]

\* The i-th entry is a start later than every other entry.
TrailingStart(entries, i) ==
    /\ entries[i].type = "start"
    /\ \A j \in Positions(entries) \ {i} :
         entries[j].timestamp < entries[i].timestamp

\* C28: a start later than every other entry adds nothing:
\* calculate_total_time comes to the same with it and without it.
C28_TrailingStartIgnored ==
    TotalCall =>
      \A i \in Positions(GivenEntries) :
        TrailingStart(GivenEntries, i) =>
          calculate_total_time(Without(GivenEntries, i), last.arg[2])
            = Outcome

\* A list with a closed interval and a start after it came to the length of
\* the interval.
C28_Witness ==
    /\ TotalCall
    /\ \E i \in Positions(GivenEntries) : TrailingStart(GivenEntries, i)
    /\ last.ok
    /\ last.val > 0

-----------------------------------------------------------------------------
(* C29 *)

\* The sum of (end - pending start) over the entries in the order of their
\* timestamps, a start replacing the pending start and an end without one
\* adding nothing.
RECURSIVE PairedSum(_, _)
PairedSum(sorted, pending) ==
    IF sorted = <<>> THEN 0
    ELSE IF Head(sorted).type = "start"
    THEN PairedSum(Tail(sorted), Some(Head(sorted).timestamp))
    ELSE IF Head(sorted).type = "end" /\ pending # None
    THEN (Head(sorted).timestamp - pending[1]) + PairedSum(Tail(sorted), None)
    ELSE PairedSum(Tail(sorted), pending)

\* C29: calculate_total_time fails on no list and returns the sum of
\* (end - pending start) over the pairs of its entries, entries of the same
\* type following each other or not.
C29_ToleratesSameType ==
    TotalCall =>
      /\ last.ok
      /\ last.val = PairedSum(sort_by_key(GivenEntries), None)

-----------------------------------------------------------------------------
(* C30 *)

\* The list a client went on from: what it read, [] for a read that failed.
ListRead(c) == unwrap_or_default(clients[c].read)

KeyOf(c) ==
    IF clients[c].op = "add_project" THEN "projects"
    ELSE time_key(clients[c].slug)

\* Both instances have added to the same list with success, and both went
\* on from the same list: each read before the other wrote.
BothAdded(c, d) ==
    /\ c # d
    /\ clients[c].pc = "done"
    /\ clients[d].pc = "done"
    /\ clients[c].op = clients[d].op
    /\ KeyOf(c) = KeyOf(d)
    /\ clients[c].ok
    /\ clients[d].ok
    /\ ListRead(c) = ListRead(d)

\* C30: when two instances have added to the same list with success, each
\* having read before the other wrote, the stored list is the list they
\* read with one element more, the element of one of the two: the other
\* addition is lost.
C30_LostUpdate ==
    \A c, d \in Clients :
      BothAdded(c, d) =>
        \E e \in {clients[c].elem, clients[d].elem} :
          ListAt(store, KeyOf(c)) = Append(ListRead(c), e)

\* Two add_time_entry calls on one key, with different entries, have both
\* returned Ok and the stored list holds one entry more than before.
C30_Witness ==
    \E c, d \in Clients :
      /\ BothAdded(c, d)
      /\ clients[c].op = "add_time_entry"
      /\ clients[c].elem # clients[d].elem
      /\ Len(ListAt(store, KeyOf(c))) = Len(ListRead(c)) + 1

-----------------------------------------------------------------------------
(* C38 *)

\* The token-cache file holds a TokenCache.
CacheHolds == 
    /\ cache.exists
    /\ IsJsonText(cache.content)
    /\ IsTokenCache(from_str(cache.content))

IsFailedWrite(e) == IsCacheWrite(e) /\ e.result = None

\* C38: after authenticate has returned Ok the token of the client is the
\* token the cache file holds and the file's expires_at is later than the
\* time of the call; when the write of the cache file failed, authenticate
\* has returned an error and the client has no token.
C38_TokenEqualsCache ==
    last.op = "authenticate" =>
      /\ last.ok =>
           /\ token # None
           /\ CacheHolds
           /\ from_str(cache.content).token = token[1]
           /\ from_str(cache.content).expires_at > now
      /\ SelectSeq(last.io, IsFailedWrite) # <<>> =>
           /\ ~last.ok
           /\ token = None

\* authenticate has logged in, saved the token and returned Ok.
C38_Witness ==
    /\ last.op = "authenticate"
    /\ last.ok
    /\ SelectSeq(last.io, IsCacheWrite) # <<>>
    /\ SelectSeq(last.log, IsLogin) # <<>>

-----------------------------------------------------------------------------
(* C39 *)

TimestampsOf(entries) == {entries[i].timestamp : i \in Positions(entries)}

\* The largest timestamp of the list less the smallest, 0 for the empty list.
Span(entries) ==
    IF entries = <<>> THEN 0
    ELSE (CHOOSE t \in TimestampsOf(entries) :
            \A u \in TimestampsOf(entries) : u <= t)
         - (CHOOSE t \in TimestampsOf(entries) :
              \A u \in TimestampsOf(entries) : t <= u)

\* C39: the total calculate_total_time returns is at least 0 and at most
\* the largest timestamp of the list less the smallest.
C39_TotalWithinSpan ==
    (TotalCall /\ last.ok) =>
      /\ 0 <= last.val
      /\ last.val <= Span(GivenEntries)

-----------------------------------------------------------------------------
(* C36 *)

\* update_project was called with a project that keeps the slug.
SameSlugUpdate ==
    /\ last.op = "update_project"
    /\ last.arg[1].slug = last.slug

\* The call read the list and the list holds the slug.
FoundInListRead ==
    /\ last.log # <<>>
    /\ IsSuccess(last.log[1].status)
    /\ position(ListAt(last.pre, "projects"), last.slug) # 0

\* The list stored before the call with the record of the slug replaced.
Replaced ==
    [ListAt(last.pre, "projects") EXCEPT
       ![position(ListAt(last.pre, "projects"), last.slug)] = last.arg[1]]

\* C36: an update_project that keeps the slug sends no request about a
\* time-entry key; when it has found the project it sends exactly one
\* write, an update of the projects key with the list it read in which the
\* record at the position of the project is replaced and nothing else
\* differs, and otherwise none.
C36_SameSlugSingleWrite ==
    SameSlugUpdate =>
      /\ \A i \in DOMAIN last.log : last.log[i].key = "projects"
      /\ IF FoundInListRead
         THEN /\ Len(Writes(last.log)) = 1
              /\ Writes(last.log)[1].method = "PUT"
              /\ Writes(last.log)[1].body = Str(to_string(to_value(Replaced)))
         ELSE Writes(last.log) = <<>>
      /\ last.ok => ListAt(store, "projects") = Replaced

\* The record of one of two listed projects was replaced by a different
\* one of the same slug.
C36_Witness ==
    /\ SameSlugUpdate
    /\ last.ok
    /\ Len(ListAt(last.pre, "projects")) >= 2
    /\ ListAt(store, "projects") # ListAt(last.pre, "projects")

-----------------------------------------------------------------------------
(* C32, C33 *)

TrackingCall == last.op \in {"start_tracking", "end_tracking"}

\* The entries of the project of the command before it and after it.
TrackedBefore == ListAt(last.pre, time_key(last.slug))
TrackedAfter == ListAt(store, time_key(last.slug))

\* The command was refused: it printed why and added nothing.
Refused ==
    /\ TrackingCall
    /\ last.val \in {"already_running", "no_entries", "not_running",
                    "status_failed"}

Started == last.op = "start_tracking" /\ last.val = "started"
Stopped == last.op = "end_tracking" /\ last.val = "stopped"

\* The list reads start, end, start, ...
Alternates(entries) ==
    \A i \in DOMAIN entries :
      entries[i].type = IF i % 2 = 1 THEN "start" ELSE "end"

\* C32: with a clock that never goes backwards, the entries of every
\* project read start, end, start, ... in stored order; a start command
\* appends its entry only to a project that is not running and a stop
\* command only to one that is running, and a refused command sends no
\* write.  This holds whether or not the requests succeed.
C32_StartEndAlternate ==
    /\ \A s \in Slugs : Alternates(ListAt(store, time_key(s)))
    /\ TrackingCall =>
         /\ Started =>
              /\ ~is_project_running(TrackedBefore)
              /\ TrackedAfter =
                   Append(TrackedBefore,
                          TimeEntry(now, "start", last.arg[1]))
         /\ Stopped =>
              /\ is_project_running(TrackedBefore)
              /\ TrackedAfter =
                   Append(TrackedBefore,
                          TimeEntry(now, "end", Some(last.arg[1])))
         /\ ~(Started \/ Stopped) => store = last.pre
         /\ Refused => Writes(last.log) = <<>>

\* A second start was appended, after a start and an end.
C32_Witness ==
    /\ Started
    /\ Len(TrackedBefore) = 2
    /\ Len(TrackedAfter) = 3

\* C33: after a stop command has appended its end entry the stored
\* entries of the project are not running, and after a start command has
\* appended its start entry they are running, whatever the clock returned.
C33_RunningFollowsCommand ==
    /\ Stopped => ~is_project_running(TrackedAfter)
    /\ Started => is_project_running(TrackedAfter)

-----------------------------------------------------------------------------
(* C31 *)

DeleteTimesCall == last.op = "delete_times"

\* --timestamp, --all and what the terminal gave at the prompt.
GivenTimestamp == last.arg[1]
GivenAll == last.arg[2]
GivenLine == last.arg[3]

\* The request that deletes all time entries of the project was sent.
DeleteAllSent ==
    \E i \in DOMAIN last.log :
      /\ last.log[i].method = "DELETE"
      /\ last.log[i].key = time_key(last.slug)

\* The line is DELETE ALL and its line end, nothing more.
TypedExactly(line) == line \in {DELETE_ALL, DELETE_ALL \o <<"\n">>}

\* The line is DELETE ALL with nothing but whitespace before and after it.
TypedUpToWhitespace(line) ==
    \E i \in 0..Len(line), j \in 0..Len(line) :
      /\ i <= j
      /\ SubSeq(line, i + 1, j) = DELETE_ALL
      /\ \A k \in (1..i) \cup ((j + 1)..Len(line)) : line[k] \in Whitespace

\* The entries of the project without those of the timestamp.
WithoutTimestamp(entries, timestamp) ==
    SelectSeq(entries, LAMBDA e : e.timestamp # timestamp)

\* With --timestamp no delete request is sent and the store differs at
\* most by the entries of that timestamp of the project.
OnlyTimestampRemoved ==
    GivenTimestamp # None =>
      /\ \A i \in DOMAIN last.log : last.log[i].method # "DELETE"
      /\ \A k \in Keys \ {time_key(last.slug)} : store[k] = last.pre[k]
      /\ \/ store = last.pre
         \/ TrackedAfter = WithoutTimestamp(TrackedBefore, GivenTimestamp[1])

\* With neither option no request that changes the store is sent.
NeitherOptionNoWrite ==
    (GivenTimestamp = None /\ ~GivenAll) =>
      /\ Writes(last.log) = <<>>
      /\ store = last.pre

\* C31 as stated: the delete-all request needs DELETE ALL typed exactly.
C31_DeleteAllTypedExactly ==
    DeleteTimesCall =>
      /\ DeleteAllSent =>
           /\ GivenAll
           /\ GivenTimestamp = None
           /\ GivenLine.ok
           /\ TypedExactly(GivenLine.line)
      /\ OnlyTimestampRemoved
      /\ NeitherOptionNoWrite

\* C31: time delete sends the request that deletes all time entries of the
\* project only when --all was given, --timestamp was not, and the line
\* read at the prompt is DELETE ALL with nothing but whitespace around it;
\* with --timestamp at most the entries of that timestamp are removed,
\* also when --all is given, and with neither option no write is sent.
C31_DeleteAllConfirmed ==
    DeleteTimesCall =>
      /\ DeleteAllSent =>
           /\ GivenAll
           /\ GivenTimestamp = None
           /\ GivenLine.ok
           /\ TypedUpToWhitespace(GivenLine.line)
      /\ OnlyTimestampRemoved
      /\ NeitherOptionNoWrite

\* All entries of a project were deleted after a line with blanks around
\* DELETE ALL.
C31_Witness ==
    /\ DeleteTimesCall
    /\ DeleteAllSent
    /\ ~TypedExactly(GivenLine.line)
    /\ Len(TrackedBefore) >= 2
    /\ TrackedAfter = <<>>

-----------------------------------------------------------------------------
(* C34, C35 *)

\* time delete --timestamp removed entries: delete_time_entry_by_timestamp
\* returned Ok.
DeletedByTimestamp ==
    /\ DeleteTimesCall
    /\ GivenTimestamp # None
    /\ last.ok
    /\ last.val = "deleted"

\* time edit changed an entry: update_time_entry_by_timestamp returned Ok.
UpdatedByTimestamp ==
    /\ last.op = "edit_time_entry"
    /\ last.val[1] = "updated"

\* The timestamp the call was made with.
CalledTimestamp ==
    IF DeleteTimesCall THEN GivenTimestamp[1] ELSE last.val[2].timestamp

\* The description update_time_entry_by_timestamp was called with.
CalledDescription ==
    IF last.arg[2] = "" THEN last.val[2].description
    ELSE IF last.arg[2] = "CLEAR" THEN None
    ELSE Some(last.arg[2])

OtherKeysUntouched ==
    \A k \in Keys \ {time_key(last.slug)} : store[k] = last.pre[k]

\* C34: a successful delete_time_entry_by_timestamp or
\* update_time_entry_by_timestamp leaves the projects list and every key
\* but the one of the project as they were and keeps the entries of other
\* timestamps unchanged and in their order; the update keeps the timestamp
\* and the type of every entry.
C34_OnlyOwnKeyChanges ==
    (DeletedByTimestamp \/ UpdatedByTimestamp) =>
      /\ OtherKeysUntouched
      /\ WithoutTimestamp(TrackedAfter, CalledTimestamp)
           = WithoutTimestamp(TrackedBefore, CalledTimestamp)
      /\ UpdatedByTimestamp =>
           /\ Len(TrackedAfter) = Len(TrackedBefore)
           /\ \A i \in DOMAIN TrackedBefore :
                /\ TrackedAfter[i].timestamp = TrackedBefore[i].timestamp
                /\ TrackedAfter[i].type = TrackedBefore[i].type

\* The second of three entries was deleted, the two of other timestamps
\* stayed.
C34_Witness ==
    /\ DeletedByTimestamp
    /\ Len(TrackedBefore) = 3
    /\ TrackedBefore[2].timestamp = CalledTimestamp
    /\ Len(TrackedAfter) = 2

\* The entries of the timestamp, as positions of the list.
PositionsOf(entries, timestamp) ==
    {i \in DOMAIN entries : entries[i].timestamp = timestamp}

FirstOf(entries, timestamp) ==
    CHOOSE i \in PositionsOf(entries, timestamp) :
      \A j \in PositionsOf(entries, timestamp) : i <= j

\* C35: delete_time_entry_by_timestamp removes every entry of the
\* timestamp; update_time_entry_by_timestamp gives the description to the
\* first entry of the timestamp in stored order and leaves every other
\* entry as it was.
C35_AllDeletedFirstUpdated ==
    /\ DeletedByTimestamp =>
         /\ PositionsOf(TrackedAfter, CalledTimestamp) = {}
         /\ Len(TrackedAfter) = Len(TrackedBefore)
              - Cardinality(PositionsOf(TrackedBefore, CalledTimestamp))
    /\ UpdatedByTimestamp =>
         TrackedAfter =
           [TrackedBefore EXCEPT
              ![FirstOf(TrackedBefore, CalledTimestamp)].description =
                CalledDescription]

\* Of two entries of one timestamp the first got a new description and
\* the second kept its own.
C35_Witness ==
    /\ UpdatedByTimestamp
    /\ Cardinality(PositionsOf(TrackedBefore, CalledTimestamp)) >= 2
    /\ TrackedAfter # TrackedBefore
    /\ \E i \in PositionsOf(TrackedAfter, CalledTimestamp) :
         TrackedAfter[i].description # CalledDescription

-----------------------------------------------------------------------------
(* C37 *)

\* C37: every key projects/<slug> that holds entries is the key of a
\* project of the stored projects list.
C37_NoOrphanedEntries ==
    \A s \in Slugs :
      ListAt(store, time_key(s)) # <<>> =>
        s \in Slugs_of(ListAt(store, "projects"))

====
